---- MODULE Spec2Model ----
(***************************************************************************)
(* Model of the terminal renderer of markdown-mixed-media:                 *)
(* renderMarkdownDirect (src/src/direct-renderer.ts) scanning a document   *)
(* line by line, with the adapters it awaits (lib/mermaid.ts, lib/svg.ts,  *)
(* lib/image.ts).                                                          *)
(*                                                                         *)
(* A line is a sequence of tokens; the string tests of the source          *)
(* (startsWith, includes, match) are computed over the tokens.  The sink   *)
(* (process.stdout) is the sequence `out` of the writes made so far.       *)
(***************************************************************************)
EXTENDS Integers, Sequences, FiniteSets, TLC

\* longest document of the exhaustive part of Docs
MaxLines == 4
\* most diagram and vector blocks in one pass of PassSpec
MaxBlocks == 3
\* most edits made in one run of a settings flow
MaxEdits == 2
\* most renderImage calls made by one process
MaxImages == 2
\* most renderMermaidDiagram calls in flight at once
MaxFlights == 3
\* most edits accepted in one run of the Ink settings app
MaxInkEdits == 3
\* most key presses in one run of the interactive viewer
MaxKeys == 4

\* direct-renderer.ts:253  j < i + 100
LookaheadWindow == 100
\* direct-renderer.ts:264  k < j + 5
DivWindow == 5

VARIABLES
    lines,              \* content.split('\n'), 1-based
    pc,                 \* position of renderMarkdownDirect
    i,                  \* loop cursor (1-based)
    inCodeBlock,
    inMermaidBlock,
    mermaidContent,     \* lines buffered since the opening mermaid fence
    processedContent,   \* text accumulator
    out,                \* writes to process.stdout, in order
    mermaidAvailable,   \* module cache of lib/mermaid.ts: "undefined", "true", "false"
    mermaidWarningShown,
    warnings,           \* times the missing-compiler warning was printed
    probes,             \* times `which mmdc` ran
    imagePath,          \* result of renderMermaidDiagram held across the await
    extractedSvg,       \* result of extractSvgFromHtml held across the await
    blockStart,         \* history: first line of the block being dispatched
    codeStart,          \* history: line of the fence that last set inCodeBlock
    mermaidStart,       \* history: line of the fence that last set inMermaidBlock
    dispatched,         \* history: lines handed to renderImage / renderEmbeddedSvg
    fault,              \* history: what failed in the last dispatched block
    inflight,           \* history: adapter calls started and not yet settled
    tmpFiles,           \* temporary files present on disk
    execs,              \* times the compiler subprocess (mmdc) was started
    call,               \* the last renderMermaidDiagram call and its result
    caller,             \* the pass making the calls: terminal, pdf, odt
    apc,                \* position of that pass
    blocks,             \* diagram and vector blocks the pass has handled
    base,               \* deepMerge: its first argument
    override,           \* deepMerge: its second argument
    merged,             \* deepMerge: its result
    configFile,         \* the persisted configuration document (config.json)
    config,             \* the store held by the settings manager (this.config)
    outcome,            \* the last loadConfig / loadProfile call and its result
    lastWrite,          \* history: the last write of config.json
    justReset,          \* history: the last step of the settings manager was a confirmed reset
    settings,           \* the numeric settings of the store a settings flow holds
    persisted,          \* the numeric settings of the profiles in config.json
    app,                \* the settings flow running: cli, ink
    edits,              \* edits made so far
    lastEdit,           \* history: the last edit and what it changed
    term,               \* the terminal and the tools of the process: program, columns, chafa
    rcall,              \* the renderImage call being made and its result
    rpc,                \* position of that call
    stderr,             \* what the image adapter printed on the error stream
    images,             \* renderImage calls made by the process
    argv,               \* the command line of mmm and what its stdin is
    run,                \* what main did with it
    flights,            \* the checkMermaidAvailable calls in flight, by caller
    export,             \* an export run (PDF, ODT): its position, source and content
    ink,                \* the Ink settings app: its store, config.json and its updateSetting calls
    viewer,             \* the interactive viewer: scrollOffset, the document, the terminal, the last key
    pdf                 \* a generatePdf call: its position, the page it loads, its result

vars == <<lines, pc, i, inCodeBlock, inMermaidBlock, mermaidContent,
          processedContent, out, mermaidAvailable, mermaidWarningShown,
          warnings, probes, imagePath, extractedSvg, blockStart, codeStart,
          mermaidStart, dispatched, fault, inflight, tmpFiles, execs, call,
          caller, apc, blocks, base, override, merged, configFile, config,
          outcome, lastWrite, justReset, settings, persisted, app, edits, lastEdit,
          term, rcall, rpc, stderr, images, argv, run, flights, export, ink, viewer,
          pdf>>

\* state of a pass seen from the adapters (lib/mermaid.ts and its callers)
passVars == <<tmpFiles, execs, call, caller, apc, blocks>>
\* everything renderMarkdownDirect's scanner leaves alone
mergeVars == <<base, override, merged>>
configVars == <<configFile, config, outcome, lastWrite, justReset>>
\* state of the settings flows (settings-cli.ts, settings.tsx)
settingsVars == <<settings, persisted, app, edits, lastEdit>>
\* state of a process calling renderImage (the image adapter)
imageVars == <<term, rcall, rpc, stderr, images>>
\* state of the command line entry point (index-direct.tsx)
cliVars == <<argv, run>>
\* state of concurrent callers of lib/mermaid.ts
probeVars == <<flights>>
\* state of the preprocessing of an export (PDF, ODT)
exportVars == <<export>>
\* state of the Ink settings app (settings.tsx)
inkVars == <<ink>>
\* state of the interactive viewer (index.tsx, components/MarkdownViewer.tsx)
viewerVars == <<viewer>>
\* state of a generatePdf call (the PDF export)
pdfVars == <<pdf>>
lateVars == <<probeVars, exportVars, inkVars, viewerVars, pdfVars>>
restVars == <<settingsVars, imageVars, cliVars, lateVars>>
sideVars == <<passVars, mergeVars, configVars, restVars>>

-----------------------------------------------------------------------------
(* Lines and the string tests of the scanner *)

\* the fence marker: three backquotes (a backquote cannot be written in a TLA+ string)
Fence == "[fence]"
\* tokens matched by \w+ right after the fence marker
WordTokens == {"mermaid", "js"}
LocalImage == "![a](b.png)"
ExternalImage == "![a](http://x/b.png)"
\* an image reference whose alt text holds a tag: ![<div](b.png)
TaggedImage == "![<div](b.png)"
ImageTokens == {LocalImage, ExternalImage, TaggedImage}

\* String.prototype.includes restricted to the tokens of the model
TokenIncludes(t, s) == t = s \/ (t = TaggedImage /\ s = "<div")

Includes(line, s) == \E k \in 1..Len(line) : TokenIncludes(line[k], s)

StartsWith(line, s) == Len(line) >= 1 /\ line[1] = s

\* line.match(/^[fence](\w+)?/)[1], "" when the group did not take part
LangMatch(line) ==
    IF Len(line) >= 2 /\ line[2] \in WordTokens THEN line[2] ELSE ""

\* line.match(/^\s*!\[([^\]]*)\]\(([^)]+)\)\s*$/)
ImageMatch(line) == Len(line) = 1 /\ line[1] \in ImageTokens

\* src.startsWith('http')
SrcIsHttp(line) == line[1] = ExternalImage

-----------------------------------------------------------------------------
(* The vector lookahead, direct-renderer.ts:248-280 *)

RECURSIVE DivSearch(_, _, _, _)
\* the inner loop: for (k = j; k < lines.length && k < j + 5; k++)
DivSearch(ls, i0, j, k) ==
    IF k > Len(ls) \/ k >= j + DivWindow
    THEN [foundSvg |-> TRUE, foundEndDiv |-> FALSE, cursor |-> i0, last |-> k - 1]
    ELSE IF Includes(ls[k], "</div>")
         THEN [foundSvg |-> TRUE, foundEndDiv |-> TRUE, cursor |-> k, last |-> k]
         ELSE DivSearch(ls, i0, j, k + 1)

SetMin(S) == CHOOSE x \in S : \A y \in S : x <= y

\* the outer loop: for (j = i; j < lines.length && j < i + 100; j++)
\* entered at line j with foundSvg = found.  The loop is left at the first
\* line, from the first one holding "<svg" on, that holds "</svg>", or past
\* the last line of the window.  cursor is the value of i when the loop is
\* left, last the last line added to svgContent
LookaheadFrom(ls, i0, j, found) ==
    LET hi == IF Len(ls) < i0 + LookaheadWindow - 1
              THEN Len(ls) ELSE i0 + LookaheadWindow - 1
        opens == {m \in j..hi : Includes(ls[m], "<svg")}
        none == [foundSvg |-> found \/ opens # {}, foundEndDiv |-> FALSE,
                 cursor |-> i0, last |-> IF j > hi THEN j - 1 ELSE hi] IN
    IF ~found /\ opens = {} THEN none
    ELSE LET from == IF found THEN j ELSE SetMin(opens)
             closes == {m \in from..hi : Includes(ls[m], "</svg>")} IN
         IF closes = {} THEN none
         ELSE LET c == SetMin(closes) IN
              IF \E m \in i0..c : Includes(ls[m], "<div")
              THEN DivSearch(ls, i0, c, c)
              ELSE [foundSvg |-> TRUE, foundEndDiv |-> TRUE, cursor |-> c, last |-> c]

\* mutant: the cursor follows the lookahead even when nothing is found
LookaheadAdvancing(ls, i0) ==
    LET la == LookaheadFrom(ls, i0, i0, FALSE) IN [la EXCEPT !.cursor = la.last]

Lookahead(ls, i0) == LookaheadFrom(ls, i0, i0, FALSE)

-----------------------------------------------------------------------------
(* lib/svg.ts *)

RECURSIVE Flat(_)
\* svgContent: each line followed by '\n'
Flat(content) ==
    IF content = <<>> THEN <<>>
    ELSE IF Len(content) = 1 THEN content[1] \o <<"\n">>
    ELSE LET half == Len(content) \div 2 IN
         Flat(SubSeq(content, 1, half))
             \o Flat(SubSeq(content, half + 1, Len(content)))

\* /<svg[\s\S]*?<\/svg>/i  is case-insensitive
IsSvgOpen(t) == t \in {"<svg", "<SVG"}
IsSvgClose(t) == t \in {"</svg>", "</SVG>"}

\* position of the leftmost match in the flattened content, <<>> when none
SvgMatch(flat) ==
    LET opens == {p \in 1..Len(flat) : IsSvgOpen(flat[p])} IN
    IF opens = {} THEN <<>>
    ELSE LET p == SetMin(opens)
             closes == {q \in (p + 1)..Len(flat) : IsSvgClose(flat[q])} IN
         IF closes = {} THEN <<>> ELSE <<p, SetMin(closes)>>

\* extractSvgFromHtml: the matched element, <<>> for null.  The ampersand
\* repair of lines 16-22 rewrites text nodes holding '&'; no token of the model
\* holds one, so it leaves the match as it is.
ExtractSvgFromHtml(content) ==
    LET flat == Flat(content)
        m == SvgMatch(flat) IN
    IF m = <<>> THEN <<>> ELSE SubSeq(flat, m[1], m[2])

\* the lines of content (numbered from 1) the match covers
ExtractLines(content) ==
    LET flat == Flat(content)
        m == SvgMatch(flat)
        LineOf(p) == 1 + Cardinality({k \in 1..(p - 1) : flat[k] = "\n"}) IN
    IF m = <<>> THEN {} ELSE LineOf(m[1])..LineOf(m[2])

-----------------------------------------------------------------------------
(* lib/image.ts *)

Esc == "ESC"
\* renderImage: the encoded graphic of the file, or a bracketed placeholder
\* when the file is missing or the encoder fails
RenderImage(file, exists, encoderOk) ==
    IF ~exists THEN <<"[Image:", file, "]">>
    ELSE IF encoderOk THEN <<Esc, file>>
    ELSE <<"[Image:", file, "- Chafa rendering failed]">>

\* sixelOutput && sixelOutput.startsWith('\x1b')
StartsWithEsc(r) == StartsWith(r, Esc)

\* renderEmbeddedSvg
RenderEmbeddedSvg(svg, writeOk, exists, encoderOk) ==
    IF ~StartsWith(svg, "<svg")
    THEN <<"Warning: Invalid SVG content">>
    ELSE IF ~writeOk
         THEN <<"Warning: SVG rendering failed">>
         ELSE RenderImage("embedded-svg", exists, encoderOk)

-----------------------------------------------------------------------------
(* lib/mermaid.ts *)

\* mutant: the probe runs on every call, the cache is not read
CheckMermaidAvailableUncached(avail, shown, which) ==
    IF which
    THEN [avail |-> "true", shown |-> shown, probed |-> 1, warned |-> 0]
    ELSE [avail |-> "false", shown |-> TRUE, probed |-> 1,
          warned |-> IF shown THEN 0 ELSE 1]

\* checkMermaidAvailable; which is the outcome of running 'which mmdc'
CheckMermaidAvailable(avail, shown, which) ==
    IF avail # "undefined"
    THEN [avail |-> avail, shown |-> shown, probed |-> 0, warned |-> 0]
    ELSE IF which
         THEN [avail |-> "true", shown |-> shown, probed |-> 1, warned |-> 0]
         ELSE [avail |-> "false", shown |-> TRUE, probed |-> 1,
               warned |-> IF shown THEN 0 ELSE 1]

\* createPlaceholderImage: fs.writeFile may reject
CreatePlaceholderImage(writeOk) == IF writeOk THEN "placeholder" ELSE "throw"

\* mutant: the compiler is run without looking at the availability probe
RenderMermaidDiagramUnchecked(avail, execOk, writeOk) ==
    IF execOk THEN "diagram" ELSE CreatePlaceholderImage(writeOk)

\* renderMermaidDiagram: what the returned path holds ("diagram" or
\* "placeholder"), or "throw" when the call rejects
RenderMermaidDiagram(avail, execOk, writeOk) ==
    IF avail # "true" THEN CreatePlaceholderImage(writeOk)
    ELSE IF execOk THEN "diagram"
    ELSE CreatePlaceholderImage(writeOk)

\* a temporary file is named <<stem, id, extension>>
NoPath == <<"", 0, "">>
\* lib/mermaid.ts:209, 219, 220: the files of the diagram whose hash is d
OutputFile(d, fmt) == <<"mermaid", d, fmt>>
MermaidFile(d) == <<"mermaid", d, "mmd">>
ConfigFile(d) == <<"mermaid-config", d, "json">>
\* how execAsync(cmd, {timeout: 30000}) settles
ExecOutcomes == {"ok", "fail", "timeout"}

\* createPlaceholderImage: the file it writes; for 'png' the .svg sibling
PlaceholderFile(fmt, outputFile) ==
    IF fmt = "svg" THEN outputFile ELSE <<outputFile[1], outputFile[2], "svg">>

\* line 256 (execAsync of the compiler) is reached
Started(avail, configOk, mmdOk) == avail = "true" /\ configOk /\ mmdOk

\* lines 239-240: the files present once the two writeFile calls settled
WrittenFiles(files, d, avail, configOk, mmdOk) ==
    IF avail # "true" \/ ~configOk THEN files
    ELSE IF ~mmdOk THEN files \cup {ConfigFile(d)}
    ELSE files \cup {ConfigFile(d), MermaidFile(d)}

\* the path the call resolves with
ReturnedPath(ret, d, fmt) ==
    IF ret = "diagram" THEN OutputFile(d, fmt)
    ELSE IF ret = "placeholder" THEN PlaceholderFile(fmt, OutputFile(d, fmt))
    ELSE NoPath

\* lines 259-262 and 267-269 with createPlaceholderImage: the files left
\* when the call settles with ret
FilesAfter(written, ret, d, fmt, avail) ==
    IF ret = "diagram"
    THEN (written \cup {OutputFile(d, fmt)}) \ {MermaidFile(d), ConfigFile(d)}
    ELSE LET cleaned == IF avail = "true"
                        THEN written \ {MermaidFile(d), ConfigFile(d), OutputFile(d, fmt)}
                        ELSE written IN
         IF ret = "placeholder" THEN cleaned \cup {ReturnedPath(ret, d, fmt)}
         ELSE cleaned

\* mutant: the catch leaves the intermediate files behind
RenderMermaidDiagramLittering(files, d, fmt, avail, configOk, mmdOk, exec, writeOk) ==
    LET started == Started(avail, configOk, mmdOk)
        ret == RenderMermaidDiagram(avail, started /\ exec = "ok", writeOk)
        written == WrittenFiles(files, d, avail, configOk, mmdOk) IN
    [ret |-> ret, path |-> ReturnedPath(ret, d, fmt),
     files |-> IF ret = "diagram" THEN FilesAfter(written, ret, d, fmt, avail)
               ELSE IF ret = "placeholder"
                    THEN written \cup {ReturnedPath(ret, d, fmt)}
                    ELSE written,
     execd |-> IF started THEN 1 ELSE 0,
     error |-> IF ret = "throw" THEN "write" ELSE "none"]

\* mutant: the catch rethrows the compiler's failure
RenderMermaidDiagramRethrowing(files, d, fmt, avail, configOk, mmdOk, exec, writeOk) ==
    LET started == Started(avail, configOk, mmdOk)
        ret == RenderMermaidDiagram(avail, started /\ exec = "ok", writeOk)
        written == WrittenFiles(files, d, avail, configOk, mmdOk) IN
    IF started /\ exec # "ok"
    THEN [ret |-> "throw", path |-> NoPath,
          files |-> FilesAfter(written, "throw", d, fmt, avail),
          execd |-> 1, error |-> "compiler"]
    ELSE [ret |-> ret, path |-> ReturnedPath(ret, d, fmt),
          files |-> FilesAfter(written, ret, d, fmt, avail),
          execd |-> IF started THEN 1 ELSE 0,
          error |-> IF ret = "throw" THEN "write" ELSE "none"]

\* renderMermaidDiagram with the files it creates and deletes.  files: the
\* temporary files before the call; configOk, mmdOk, writeOk: whether the
\* writeFile of the config, of the source and of the placeholder resolve;
\* exec: how the compiler settles.  fs.unlink of a missing file rejects and
\* the rejection is swallowed (.catch(() => {})).  error names what the
\* call rejects with.
RenderMermaidDiagramFiles(files, d, fmt, avail, configOk, mmdOk, exec, writeOk) ==
    LET started == Started(avail, configOk, mmdOk)
        ret == RenderMermaidDiagram(avail, started /\ exec = "ok", writeOk)
        written == WrittenFiles(files, d, avail, configOk, mmdOk) IN
    [ret |-> ret, path |-> ReturnedPath(ret, d, fmt),
     files |-> FilesAfter(written, ret, d, fmt, avail),
     execd |-> IF started THEN 1 ELSE 0,
     error |-> IF ret = "throw" THEN "write" ELSE "none"]

\* cleanupMermaidFile
CleanupMermaidFile(files, filePath) == files \ {filePath}

\* no renderMermaidDiagram call was made yet
NoCall == [d |-> 0, fmt |-> "", avail |-> "", exec |-> "", writeOk |-> FALSE,
           ret |-> "none", path |-> NoPath, error |-> "none", probed |-> 0,
           n |-> 0]

\* the adapters' files and counters while no pass uses them
PassIdle ==
    /\ tmpFiles = {}
    /\ execs = 0
    /\ call = NoCall
    /\ caller = "none"
    /\ apc = "idle"
    /\ blocks = 0

-----------------------------------------------------------------------------
(* JSON values and lib/config.ts *)

\* a JSON (or JavaScript) value is [t |-> its type, v |-> its content]; the
\* content of an object is a function from its own keys to values, of an
\* array the sequence of its elements, of anything else a string
Num(s) == [t |-> "number", v |-> s]
Str(s) == [t |-> "string", v |-> s]
Null == [t |-> "null", v |-> "null"]
Undefined == [t |-> "undefined", v |-> "undefined"]
Arr(seq) == [t |-> "array", v |-> seq]
Obj(f) == [t |-> "object", v |-> f]
\* a function inherited from Object.prototype
Fn(name) == [t |-> "function", v |-> name]
EmptyObj == Obj(<<>>)

\* properties every plain object inherits
ProtoKeys == {"constructor", "toString"}
\* key in o
HasProperty(o, key) == key \in DOMAIN o.v \/ key \in ProtoKeys
\* o[key]
GetProperty(o, key) ==
    IF key \in DOMAIN o.v THEN o.v[key]
    ELSE IF key \in ProtoKeys THEN Fn(key)
    ELSE Undefined
\* the truth value of x in a condition
Truthy(x) ==
    \/ x.t \in {"object", "array", "function"}
    \/ x.t = "number" /\ x.v # "0"
    \/ x.t = "string" /\ x.v # ""

\* config.ts:830-832
IsObject(item) == Truthy(item) /\ item.t = "object"

\* the keys of an array's elements
IndexKeys == <<"0", "1", "2">>
\* the characters of the strings of the model
Chars(str) ==
    CASE str = "" -> <<>>
      [] str = "pdf" -> <<"p", "d", "f">>
      [] str = "odt" -> <<"o", "d", "t">>
\* { ...x }: an object holding the own enumerable properties of x
Spread(x) ==
    IF x.t = "object" THEN x
    ELSE IF x.t = "array"
    THEN Obj([key \in {IndexKeys[n] : n \in 1..Len(x.v)} |->
                 x.v[CHOOSE n \in 1..Len(x.v) : IndexKeys[n] = key]])
    ELSE IF x.t = "string"
    THEN Obj([key \in {IndexKeys[n] : n \in 1..Len(Chars(x.v))} |->
                 Str(Chars(x.v)[CHOOSE n \in 1..Len(Chars(x.v)) : IndexKeys[n] = key])])
    ELSE EmptyObj

\* mutant: a key of both sides always takes the override's value
RECURSIVE DeepMergeShallow(_, _)
DeepMergeShallow(target, source) ==
    LET output == Spread(target) IN
    IF IsObject(target) /\ IsObject(source)
    THEN Obj([key \in DOMAIN output.v \cup DOMAIN source.v |->
                 IF key \in DOMAIN source.v THEN source.v[key] ELSE output.v[key]])
    ELSE output

\* config.ts:810-828 deepMerge
RECURSIVE DeepMerge(_, _)
DeepMerge(target, source) ==
    LET output == Spread(target) IN
    IF IsObject(target) /\ IsObject(source)
    THEN Obj([key \in DOMAIN output.v \cup DOMAIN source.v |->
                 IF key \notin DOMAIN source.v THEN output.v[key]
                 ELSE IF IsObject(source.v[key])
                 THEN IF ~HasProperty(target, key) THEN source.v[key]
                      ELSE DeepMerge(GetProperty(target, key), source.v[key])
                 ELSE source.v[key]])
    ELSE output

\* deepMerge is not being called
MergeIdle ==
    /\ base = Undefined
    /\ override = Undefined
    /\ merged = Undefined

\* o with o[key] = val
SetProperty(o, key, val) ==
    Obj([k \in DOMAIN o.v \cup {key} |-> IF k = key THEN val ELSE o.v[k]])

\* a profile, reduced to its output field
Profile(output) == Obj([output |-> Str(output)])

\* config.ts:675-683 defaultConfig
DefaultConfig ==
    Obj([defaultProfile |-> Str("terminal"),
         profiles |-> Obj([terminal |-> Profile("terminal"), pdf |-> Profile("pdf"),
                           print |-> Profile("pdf"), odt |-> Profile("odt")])])

\* config.ts:731-801: the document createDefaultConfig writes
DefaultDocument ==
    Obj([defaultProfile |-> Str("terminal"),
         profiles |-> Obj([terminal |-> Profile("terminal"), pdf |-> Profile("pdf")])])

\* config.json: absent, present but not parseable, or holding a document
AbsentFile == [state |-> "absent", doc |-> Undefined]
CorruptFile == [state |-> "corrupt", doc |-> Undefined]
OkFile(doc) == [state |-> "ok", doc |-> doc]

\* config.ts:714-725 initializeConfig with createDefaultConfig (727-808),
\* whose failures are logged and swallowed
InitializeConfig(file, writeOk) ==
    IF file.state # "absent" THEN file
    ELSE IF writeOk THEN OkFile(DefaultDocument)
    ELSE file

\* mutant: an unparseable file is replaced by the defaults
LoadConfigRepairing(file, writeOk) ==
    IF file.state = "ok"
    THEN [store |-> DeepMerge(DefaultConfig, file.doc), file |-> file, threw |-> FALSE]
    ELSE [store |-> DefaultConfig,
          file |-> IF writeOk THEN OkFile(DefaultDocument) ELSE file,
          threw |-> FALSE]

\* config.ts:685-701 loadConfig: the store it returns, the file it leaves,
\* whether it rejects
LoadConfig(file, writeOk) ==
    IF file.state = "ok"
    THEN [store |-> DeepMerge(DefaultConfig, file.doc), file |-> file, threw |-> FALSE]
    ELSE IF file.state = "absent"
    THEN [store |-> DefaultConfig, file |-> InitializeConfig(file, writeOk),
          threw |-> FALSE]
    ELSE [store |-> DefaultConfig, file |-> file, threw |-> FALSE]

\* config.ts:703-712 loadProfile on the store loadConfig returned; name ""
\* stands for an omitted or empty name
LoadProfile(store, name) ==
    LET n == IF name # "" THEN name ELSE GetProperty(store, "defaultProfile").v
        profiles == GetProperty(store, "profiles")
        found == GetProperty(profiles, n) IN
    IF ~Truthy(found)
    THEN [kind |-> "not found", profile |-> Undefined, listed |-> DOMAIN profiles.v]
    ELSE [kind |-> "profile", profile |-> found, listed |-> {}]

\* no call was made yet
NoOutcome == [op |-> "none", name |-> "", from |-> "", threw |-> FALSE,
              store |-> Undefined, kind |-> "", profile |-> Undefined, listed |-> {}]

\* config.json was not written yet
NoWrite == [by |-> "none", before |-> "", doc |-> Undefined]

\* the configuration store while nothing uses it
ConfigIdle ==
    /\ configFile = AbsentFile
    /\ config = Undefined
    /\ outcome = NoOutcome
    /\ lastWrite = NoWrite
    /\ justReset = FALSE

-----------------------------------------------------------------------------
(* Numbers typed into the settings flows: settings-cli.ts, settings.tsx *)

\* a number is the fraction n/d with d > 0; NaN has d = 0.  An answer typed
\* at a prompt is a sequence of characters
NaN == [n |-> 0, d |-> 0]
IsNaN(x) == x.d = 0
Whole(k) == [n |-> k, d |-> 1]
Frac(a, b) == [n |-> a, d |-> b]

Digits == <<"0", "1", "2", "3", "4", "5", "6", "7", "8", "9">>
DigitChars == {Digits[k] : k \in 1..Len(Digits)}
DigitVal(c) == (CHOOSE k \in 1..Len(Digits) : Digits[k] = c) - 1

RECURSIVE Pow10(_)
Pow10(k) == IF k = 0 THEN 1 ELSE 10 * Pow10(k - 1)

\* length of the run of digits of str that starts at position from
DigitRun(str, from) ==
    SetMin({k \in from..(Len(str) + 1) :
               k = Len(str) + 1 \/ str[k] \notin DigitChars}) - from

RECURSIVE DigitsValue(_, _, _)
\* the value of the n digits of str that start at position from
DigitsValue(str, from, n) ==
    IF n = 0 THEN 0
    ELSE 10 * DigitsValue(str, from, n - 1) + DigitVal(str[from + n - 1])

\* position after an optional sign, and the sign
AfterSign(str) == IF Len(str) >= 1 /\ str[1] \in {"-", "+"} THEN 2 ELSE 1
SignOf(str) == IF Len(str) >= 1 /\ str[1] = "-" THEN -1 ELSE 1

\* parseInt(str): the longest prefix [+-]digits, NaN when it has no digit
ParseInt(str) ==
    LET from == AfterSign(str)
        whole == DigitRun(str, from) IN
    IF whole = 0 THEN NaN ELSE Whole(SignOf(str) * DigitsValue(str, from, whole))

\* parseFloat(str): the longest prefix [+-]digits[.digits], NaN when it
\* has no digit
ParseFloat(str) ==
    LET from == AfterSign(str)
        whole == DigitRun(str, from)
        dot == from + whole
        hasDot == dot <= Len(str) /\ str[dot] = "."
        frac == IF hasDot THEN DigitRun(str, dot + 1) ELSE 0 IN
    IF whole + frac = 0 THEN NaN
    ELSE Frac(SignOf(str) * (DigitsValue(str, from, whole) * Pow10(frac)
                               + DigitsValue(str, dot + 1, frac)),
              Pow10(frac))

\* x / k, x >= k, x <= k, x > k; every comparison with NaN is false
DivideBy(x, k) == IF IsNaN(x) THEN NaN ELSE Frac(x.n, x.d * k)
AtLeast(x, k) == ~IsNaN(x) /\ x.n >= k * x.d
AtMost(x, k) == ~IsNaN(x) /\ x.n <= k * x.d
MoreThan(x, k) == ~IsNaN(x) /\ x.n > k * x.d

\* a profile reduced to its output and its numeric settings; a setting that
\* may be missing is a sequence of at most one number
NumericProfile(output, widthPercent, threshold, imagesDpi, mermaidDpi) ==
    [output |-> output, widthPercent |-> widthPercent, threshold |-> threshold,
     imagesDpi |-> imagesDpi, mermaidDpi |-> mermaidDpi]

\* config.ts:481-673 terminalProfile, pdfProfile, printProfile, odtProfile
DefaultSettings ==
    [terminal |-> NumericProfile("terminal", Frac(75, 100), <<Frac(95, 100)>>,
                                 <<>>, <<Whole(96)>>),
     pdf |-> NumericProfile("pdf", Frac(80, 100), <<>>, <<Whole(150)>>, <<Whole(300)>>),
     print |-> NumericProfile("pdf", Frac(80, 100), <<>>, <<Whole(150)>>, <<Whole(300)>>),
     odt |-> NumericProfile("odt", Frac(90, 100), <<>>, <<Whole(150)>>, <<Whole(300)>>)]

\* config.ts:731-801: the profiles of the document createDefaultConfig writes
DefaultPersisted ==
    [terminal |-> NumericProfile("terminal", Frac(75, 100), <<Frac(95, 100)>>,
                                 <<>>, <<>>),
     pdf |-> NumericProfile("pdf", Frac(80, 100), <<>>, <<Whole(150)>>, <<>>)]

\* no edit was made yet
NoEdit == [flow |-> "none", profile |-> "", key |-> "", input |-> <<>>,
           accepted |-> FALSE, before |-> <<>>, after |-> <<>>]

\* no settings flow is running
SettingsIdle ==
    /\ settings = <<>>
    /\ persisted = <<>>
    /\ app = "none"
    /\ edits = 0
    /\ lastEdit = NoEdit

-----------------------------------------------------------------------------
(* The image adapter, step by step: renderImage and its encoders *)

\* process.env.TERM_PROGRAM (KITTY_WINDOW_ID set counts as "kitty")
Programs == {"iTerm.app", "kitty", "xterm"}

\* how a subprocess started by execAsync ends: exit 0 with a graphic, a
\* failure (not found, non-zero exit, maxBuffer exceeded), exit 0 with
\* output that is no graphic, or no end at all
ChildOutcomes == {"ok", "error", "garbage", "hang"}

\* Math.floor(x) for x >= 0
Floor(x) == x.n \div x.d
\* termColumns * percentage
Times(k, x) == Frac(k * x.n, x.d)

\* part_006:56-58 targetColumns; columns 0 stands for an undefined
\* process.stdout.columns, <<>> for an undefined widthPercent
TargetColumns(columns, widthPercent) ==
    LET percentage == IF widthPercent = <<>> \/ widthPercent[1].n = 0
                      THEN Frac(3, 4) ELSE widthPercent[1]
        termColumns == IF columns = 0 THEN 80 ELSE columns IN
    Floor(Times(termColumns, percentage))

ImageFile == "b.png"
\* part_006:39  `[Image: ${imagePath}]`
FailedToRender(file) == <<"[Image:", file, "]">>
\* part_006:75
ChafaFailed(file) == <<"[Image:", file, "- Chafa rendering failed]">>
\* stdout of an encoder: the graphic, or output that is none
Stdout(child, file) == IF child = "ok" THEN <<Esc, file>> ELSE <<"garbage">>

\* mutant: the failure of a step reaches the caller of renderImage
RenderImageUncaught(file) == [kind |-> "throw", value |-> <<>>]
\* part_006:37-40: the catch of renderImage
RenderImageCatch(file) == [kind |-> "return", value |-> FailedToRender(file)]

NoResult == [kind |-> "none", value |-> <<>>]
NoImageCall == [exists |-> FALSE, widthPercent |-> <<>>, child |-> "none",
                size |-> <<>>, kittyFailed |-> FALSE, chafaFailed |-> FALSE,
                readFailed |-> FALSE, result |-> NoResult]
NoStderr == [failedToRender |-> 0, chafaErrors |-> 0]

\* no process is calling renderImage
ImageIdle ==
    /\ term = [program |-> "xterm", columns |-> 0, chafa |-> TRUE]
    /\ rcall = NoImageCall
    /\ rpc = "idle"
    /\ stderr = NoStderr
    /\ images = 0

-----------------------------------------------------------------------------
(* The entry point: index-direct.tsx *)

\* cli.input[0] ("" when absent), cli.flags and process.stdin.isTTY
NoArgv == [file |-> "", pdf |-> FALSE, odt |-> FALSE, settings |-> FALSE,
           check |-> FALSE, profile |-> "", isTTY |-> TRUE]
\* main has not run
NoRun == [mode |-> "none", source |-> "none", profile |-> "", status |-> "",
          error |-> ""]

CliIdle ==
    /\ argv = NoArgv
    /\ run = NoRun

\* no call of checkMermaidAvailable has been made
NoFlight == [pc |-> "idle", got |-> ""]

ProbeIdle == flights = [f \in 1..MaxFlights |-> NoFlight]

\* no export has been started
NoExport == [pc |-> "none", mode |-> "", src |-> <<>>, content |-> <<>>]

ExportIdle == export = NoExport

\* the Ink settings app is not running
NoInk == [config |-> <<>>, file |-> <<>>, calls |-> <<>>]

InkIdle == ink = NoInk

\* no key was pressed yet
NoKey == [key |-> "none", before |-> 0, after |-> 0]
\* the interactive viewer is not running
NoViewer == [scrollOffset |-> 0, lineCount |-> 0, rows |-> 0, keys |-> 0, last |-> NoKey]

ViewerIdle == viewer = NoViewer

\* generatePdf was not called
NoPdf == [pc |-> "none", math |-> FALSE, katexLoaded |-> FALSE, rendered |-> FALSE,
          pending |-> 0, broken |-> 0, polls |-> 0, protocolTimeout |-> FALSE,
          result |-> ""]

PdfIdle == pdf = NoPdf

LateIdle == ProbeIdle /\ ExportIdle /\ InkIdle /\ ViewerIdle /\ PdfIdle

RestIdle == SettingsIdle /\ ImageIdle /\ CliIdle /\ LateIdle

-----------------------------------------------------------------------------
(* Documents *)

Txt == <<"txt">>
Empty == <<>>
BareFence == <<Fence>>
MermaidFence == <<Fence, "mermaid">>
JsFence == <<Fence, "js">>
ImageLine == <<LocalImage>>
HttpImageLine == <<ExternalImage>>
TaggedImageLine == <<TaggedImage>>
SvgOpen == <<"<svg">>
SvgClose == <<"</svg>">>
SvgWhole == <<"<svg", "</svg>">>
SvgCloseOpen == <<"</svg>", "<svg">>
DivOpen == <<"<div">>
DivClose == <<"</div>">>
DivUpperSvg == <<"<div", "<SVG">>

Alphabet == {Txt, BareFence, MermaidFence, ImageLine, SvgOpen, SvgClose,
             SvgWhole, SvgCloseOpen, DivOpen, DivClose}

Pad(n) == [k \in 1..n |-> Txt]

\* documents that need a line outside Alphabet or more than MaxLines lines
ExtraDocs == {
    <<Txt, Empty, MermaidFence, Txt, Txt, BareFence, Empty, Txt, Empty>>,
    <<JsFence, ImageLine, BareFence, ImageLine>>,
    <<BareFence, ImageLine, JsFence, ImageLine>>,
    <<JsFence, MermaidFence, Txt, BareFence, BareFence>>,
    <<Txt, HttpImageLine, Txt>>,
    <<TaggedImageLine, Txt>>,
    <<Txt, TaggedImageLine, SvgCloseOpen, DivClose, Txt>>,
    <<DivUpperSvg, SvgWhole, DivClose, Txt>>,
    <<SvgOpen>> \o Pad(LookaheadWindow - 2) \o <<SvgClose, Txt>>,
    <<SvgOpen>> \o Pad(LookaheadWindow - 1) \o <<SvgClose, Txt>>,
    <<DivOpen, SvgWhole>> \o Pad(DivWindow - 2) \o <<DivClose, Txt>>,
    <<DivOpen, SvgWhole>> \o Pad(DivWindow - 1) \o <<DivClose, Txt>> }

Docs == (UNION {[1..n -> Alphabet] : n \in 1..MaxLines}) \cup ExtraDocs

-----------------------------------------------------------------------------
(* The sink and the text accumulator *)

Newline == <<"\n">>

\* mutant: the line is put in front of the accumulated text
AppendLineInFront(acc, n, line) == <<[ln |-> n, text |-> line]>> \o acc

\* processedContent += line + '\n'   (ln records where the line came from)
AppendLine(acc, n, line) == Append(acc, [ln |-> n, text |-> line])

\* process.stdout.write(marked(processedContent))
Marked(acc) ==
    [kind |-> "text", blk |-> "text",
     from |-> acc[1].ln, to |-> acc[Len(acc)].ln,
     lns |-> [k \in 1..Len(acc) |-> acc[k].ln],
     body |-> [k \in 1..Len(acc) |-> acc[k].text]]

\* mutant: the accumulated text is dropped, not written
FlushOutDropped(o, acc) == o

\* if (processedContent) { process.stdout.write(marked(processedContent)) }
FlushOut(o, acc) == IF acc # <<>> THEN Append(o, Marked(acc)) ELSE o

\* one process.stdout.write made for the block of lines from..to
BlockWrite(blk, from, to, body) ==
    [kind |-> "block", blk |-> blk, from |-> from, to |-> to,
     lns |-> <<>>, body |-> body]

\* the vector check of one line, direct-renderer.ts:246-309: whether a
\* block is dispatched, the extracted element, and the cursor it leaves
VectorCheck(ls, i0, inCode) ==
    IF ~inCode /\ (Includes(ls[i0], "<svg") \/ Includes(ls[i0], "<div"))
    THEN LET la == Lookahead(ls, i0) IN
         IF la.foundSvg /\ la.foundEndDiv
         THEN LET ex == ExtractSvgFromHtml(SubSeq(ls, i0, la.last)) IN
              [dispatch |-> ex # <<>>, cursor |-> la.cursor, svg |-> ex,
               span |-> {i0 - 1 + n : n \in ExtractLines(SubSeq(ls, i0, la.last))}]
         ELSE [dispatch |-> FALSE, cursor |-> la.cursor, svg |-> <<>>, span |-> {}]
    ELSE [dispatch |-> FALSE, cursor |-> i0, svg |-> <<>>, span |-> {}]

-----------------------------------------------------------------------------
(* renderMarkdownDirect *)

\* lines 156-159: the locals of a pass that has not started
ScanFresh ==
    /\ pc = "start"
    /\ i = 1
    /\ inCodeBlock = FALSE
    /\ inMermaidBlock = FALSE
    /\ mermaidContent = <<>>
    /\ processedContent = <<>>
    /\ out = <<>>
    /\ imagePath = ""
    /\ extractedSvg = <<>>
    /\ blockStart = 0
    /\ codeStart = 0
    /\ mermaidStart = 0
    /\ dispatched = {}
    /\ fault = {}
    /\ inflight = 0

\* lib/mermaid.ts:128-129: the module's cache in a new process
CacheFresh ==
    /\ mermaidAvailable = "undefined"
    /\ mermaidWarningShown = FALSE
    /\ warnings = 0
    /\ probes = 0

Init ==
    /\ lines \in Docs
    /\ ScanFresh
    /\ CacheFresh
    /\ PassIdle
    /\ MergeIdle
    /\ ConfigIdle
    /\ RestIdle

scanVars == <<inCodeBlock, inMermaidBlock, mermaidContent, processedContent>>
cacheVars == <<mermaidAvailable, mermaidWarningShown, warnings, probes>>
heldVars == <<imagePath, extractedSvg>>
histVars == <<blockStart, codeStart, mermaidStart, dispatched, fault>>

AtLine == pc = "scan" /\ i <= Len(lines)
IsFence == StartsWith(lines[i], Fence)

\* mutant: the adapter call is started and the loop goes on without it
NotAwaited(p) == "scan"

\* await (lines 194, 197, 297, 330, 336): the loop is suspended at position
\* p until the adapter call settles
Await(p) == p

\* lines 129-155: loadProfile or fs.readFile may reject, which the outer
\* catch turns into process.exit(1)
Start ==
    /\ pc = "start"
    /\ \E ok \in BOOLEAN : pc' = IF ok THEN "scan" ELSE "exit"
    /\ UNCHANGED <<lines, sideVars, inflight, i, out, scanVars, cacheVars, heldVars, histVars>>

\* lines 168-181: a fence line while inMermaidBlock, up to the await of
\* renderMermaidDiagram
FenceCloseMermaid ==
    /\ AtLine /\ IsFence /\ inMermaidBlock
    /\ inMermaidBlock' = FALSE
    /\ out' = Append(FlushOut(out, processedContent),
                     BlockWrite("mermaid", mermaidStart, i, <<Newline>>))
    /\ processedContent' = <<>>
    /\ pc' = Await("mermaid_render")
    /\ inflight' = inflight + 1
    /\ blockStart' = mermaidStart
    /\ fault' = {}
    /\ UNCHANGED <<lines, sideVars, i, inCodeBlock, mermaidContent, cacheVars, heldVars,
                   codeStart, mermaidStart, dispatched>>

\* lines 226-230
FenceOpenMermaid ==
    /\ AtLine /\ IsFence /\ ~inMermaidBlock
    /\ LangMatch(lines[i]) = "mermaid"
    /\ inMermaidBlock' = TRUE
    /\ mermaidContent' = <<>>
    /\ mermaidStart' = i
    /\ i' = i + 1
    /\ UNCHANGED <<lines, sideVars, inflight, pc, out, inCodeBlock, processedContent, cacheVars,
                   heldVars, blockStart, codeStart, dispatched, fault>>

\* lines 231-236
FenceToggleCode ==
    /\ AtLine /\ IsFence /\ ~inMermaidBlock
    /\ LangMatch(lines[i]) # "mermaid"
    /\ inCodeBlock' = ~inCodeBlock
    /\ processedContent' = AppendLine(processedContent, i, lines[i])
    /\ codeStart' = IF inCodeBlock THEN codeStart ELSE i
    /\ i' = i + 1
    /\ UNCHANGED <<lines, sideVars, inflight, pc, out, inMermaidBlock, mermaidContent, cacheVars,
                   heldVars, blockStart, mermaidStart, dispatched, fault>>

\* lines 240-243
AccumulateMermaid ==
    /\ AtLine /\ ~IsFence /\ inMermaidBlock
    /\ mermaidContent' = AppendLine(mermaidContent, i, lines[i])
    /\ i' = i + 1
    /\ UNCHANGED <<lines, sideVars, inflight, pc, out, inCodeBlock, inMermaidBlock,
                   processedContent, cacheVars, heldVars, histVars>>

\* lines 246-297: a complete block was found and extracted, up to the
\* await of renderEmbeddedSvg
VectorDispatch ==
    /\ AtLine /\ ~IsFence /\ ~inMermaidBlock
    /\ LET vc == VectorCheck(lines, i, inCodeBlock) IN
       /\ vc.dispatch
       /\ out' = Append(FlushOut(out, processedContent),
                        BlockWrite("svg", i, vc.cursor, <<Newline>>))
       /\ processedContent' = <<>>
       /\ extractedSvg' = vc.svg
       /\ i' = vc.cursor
       /\ dispatched' = dispatched \cup vc.span
    /\ pc' = Await("svg")
    /\ inflight' = inflight + 1
    /\ blockStart' = i
    /\ fault' = {}
    /\ UNCHANGED <<lines, sideVars, inCodeBlock, inMermaidBlock, mermaidContent,
                   cacheVars, imagePath, codeStart, mermaidStart>>

\* lines 313-330: a standalone local image, up to the await of fs.access
LocalImageLine ==
    /\ AtLine /\ ~IsFence /\ ~inMermaidBlock
    /\ LET vc == VectorCheck(lines, i, inCodeBlock) IN
       /\ ~vc.dispatch
       /\ i' = vc.cursor
    /\ ~inCodeBlock /\ ImageMatch(lines[i]) /\ ~SrcIsHttp(lines[i])
    /\ out' = FlushOut(out, processedContent)
    /\ processedContent' = <<>>
    /\ pc' = Await("image")
    /\ inflight' = inflight + 1
    /\ blockStart' = i
    /\ fault' = {}
    /\ UNCHANGED <<lines, sideVars, inCodeBlock, inMermaidBlock, mermaidContent,
                   cacheVars, heldVars, codeStart, mermaidStart, dispatched>>

\* lines 313-323, 359-362: a standalone external image
ExternalImageLine ==
    /\ AtLine /\ ~IsFence /\ ~inMermaidBlock
    /\ LET vc == VectorCheck(lines, i, inCodeBlock) IN
       /\ ~vc.dispatch
       /\ i' = vc.cursor + 1
    /\ ~inCodeBlock /\ ImageMatch(lines[i]) /\ SrcIsHttp(lines[i])
    /\ out' = Append(FlushOut(out, processedContent),
                     BlockWrite("image", i, i, <<<<"[External image:", "a", "]">>>>))
    /\ processedContent' = <<>>
    /\ blockStart' = i
    /\ fault' = {}
    /\ UNCHANGED <<lines, sideVars, inflight, pc, inCodeBlock, inMermaidBlock, mermaidContent,
                   cacheVars, heldVars, codeStart, mermaidStart, dispatched>>

\* lines 363-366: the line is accumulated for the markup engine
AppendText ==
    /\ AtLine /\ ~IsFence /\ ~inMermaidBlock
    /\ LET vc == VectorCheck(lines, i, inCodeBlock) IN
       /\ ~vc.dispatch
       /\ i' = vc.cursor + 1
    /\ ~(~inCodeBlock /\ ImageMatch(lines[i]))
    /\ processedContent' = AppendLine(processedContent, i, lines[i])
    /\ UNCHANGED <<lines, sideVars, inflight, pc, out, inCodeBlock, inMermaidBlock,
                   mermaidContent, cacheVars, heldVars, histVars>>

\* texts of the buffered diagram lines
Texts(acc) == [k \in 1..Len(acc) |-> acc[k].text]

\* mutant: the catch writes nothing
MermaidCatchSilent(o, from, to, content) == o

\* lines 216-222: the catch of the diagram block
MermaidCatch(o, from, to, content) ==
    o \o << BlockWrite("mermaid", from, to, <<MermaidFence>>),
            BlockWrite("mermaid", from, to, Texts(content)),
            BlockWrite("mermaid", from, to, <<BareFence>>),
            BlockWrite("mermaid", from, to, <<<<"[Mermaid error:", "]">>>>) >>

\* mutant: the encoder's result is written without the escape test
MermaidWritesUntested(o, from, to, sixelOutput) ==
    o \o << BlockWrite("mermaid", from, to, <<sixelOutput>>),
            BlockWrite("mermaid", from, to, <<Newline>>) >>

\* lines 206-212: what is written for the encoder's result
MermaidWrites(o, from, to, sixelOutput) ==
    o \o << BlockWrite("mermaid", from, to,
               <<IF StartsWithEsc(sixelOutput) THEN sixelOutput
                 ELSE <<"[Mermaid diagram rendering failed]">>>>),
            BlockWrite("mermaid", from, to, <<Newline>>) >>

\* line 194 with lib/mermaid.ts:193-278: renderMermaidDiagram resolves with
\* a path, or rejects and lines 216-225 run
MermaidRender ==
    /\ pc = "mermaid_render"
    /\ \E which \in BOOLEAN, execOk \in BOOLEAN, writeOk \in BOOLEAN :
         LET chk == CheckMermaidAvailable(mermaidAvailable, mermaidWarningShown, which)
             r == RenderMermaidDiagram(chk.avail, execOk, writeOk) IN
         /\ mermaidAvailable' = chk.avail
         /\ mermaidWarningShown' = chk.shown
         /\ warnings' = warnings + chk.warned
         /\ probes' = probes + chk.probed
         /\ IF r = "throw"
            THEN /\ out' = MermaidCatch(out, blockStart, i, mermaidContent)
                 /\ mermaidContent' = <<>>
                 /\ i' = i + 1
                 /\ pc' = "scan"
                 /\ inflight' = inflight - 1
                 /\ fault' = {"throw"}
                 /\ UNCHANGED imagePath
            ELSE /\ imagePath' = r
                 /\ pc' = Await("mermaid_image")
                 /\ inflight' = inflight
                 /\ fault' = IF chk.avail = "false" THEN {"unavailable"}
                             ELSE IF r = "placeholder" THEN {"compile"} ELSE {}
                 /\ UNCHANGED <<out, mermaidContent, i>>
    /\ UNCHANGED <<lines, sideVars, inCodeBlock, inMermaidBlock, processedContent,
                   extractedSvg, blockStart, codeStart, mermaidStart, dispatched>>

\* lines 197-225 with lib/image.ts: renderImage resolves, its result is
\* written, cleanupMermaidFile runs
MermaidImage ==
    /\ pc = "mermaid_image"
    /\ \E exists \in BOOLEAN, encoderOk \in BOOLEAN :
         LET sixelOutput == RenderImage(imagePath, exists, encoderOk) IN
         /\ out' = MermaidWrites(out, blockStart, i, sixelOutput)
         /\ fault' = IF StartsWithEsc(sixelOutput) THEN fault
                     ELSE fault \cup {"encode"}
    /\ mermaidContent' = <<>>
    /\ i' = i + 1
    /\ pc' = "scan"
    /\ inflight' = inflight - 1
    /\ UNCHANGED <<lines, sideVars, inCodeBlock, inMermaidBlock, processedContent,
                   cacheVars, heldVars, blockStart, codeStart, mermaidStart,
                   dispatched>>

\* lines 345-354: what is written for the encoder's result
ImageWrites(o, n, sixelOutput) ==
    o \o << BlockWrite("image", n, n, <<Newline>>),
            BlockWrite("image", n, n,
               <<IF StartsWithEsc(sixelOutput) THEN sixelOutput
                 ELSE <<"[Image:", "a", "]">>>>),
            BlockWrite("image", n, n, <<Newline>>) >>

\* lines 355-358: the catch of the image block
ImageCatch(o, n) ==
    Append(o, BlockWrite("image", n, n, <<<<"[Image not found:", "a", "]">>>>))

\* lines 329-358 with lib/image.ts: fs.access, then renderImage
ImageRender ==
    /\ pc = "image"
    /\ \E accessOk \in BOOLEAN, exists \in BOOLEAN, encoderOk \in BOOLEAN :
         IF ~accessOk
         THEN /\ out' = ImageCatch(out, blockStart)
              /\ fault' = {"missing"}
              /\ UNCHANGED dispatched
         ELSE LET sixelOutput == RenderImage("b.png", exists, encoderOk) IN
              /\ out' = ImageWrites(out, blockStart, sixelOutput)
              /\ fault' = IF StartsWithEsc(sixelOutput) THEN {} ELSE {"encode"}
              /\ dispatched' = dispatched \cup {blockStart}
    /\ i' = i + 1
    /\ pc' = "scan"
    /\ inflight' = inflight - 1
    /\ UNCHANGED <<lines, sideVars, scanVars, cacheVars, heldVars, blockStart,
                   codeStart, mermaidStart>>

\* lines 297-306 with lib/svg.ts:33-85
SvgRender ==
    /\ pc = "svg"
    /\ \E writeOk \in BOOLEAN, exists \in BOOLEAN, encoderOk \in BOOLEAN :
         LET svgOutput == RenderEmbeddedSvg(extractedSvg, writeOk, exists, encoderOk) IN
         /\ out' = out \o << BlockWrite("svg", blockStart, i, <<svgOutput>>),
                             BlockWrite("svg", blockStart, i, <<Newline>>) >>
         /\ fault' = IF StartsWithEsc(svgOutput) THEN {} ELSE {"svg"}
    /\ i' = i + 1
    /\ pc' = "scan"
    /\ inflight' = inflight - 1
    /\ UNCHANGED <<lines, sideVars, scanVars, cacheVars, heldVars, blockStart,
                   codeStart, mermaidStart, dispatched>>

\* lines 369-373: after the last line
Finish ==
    /\ pc = "scan" /\ i > Len(lines)
    /\ out' = FlushOut(out, processedContent)
    /\ pc' = "done"
    /\ UNCHANGED <<lines, sideVars, inflight, i, scanVars, cacheVars, heldVars, histVars>>

Next ==
    \/ Start
    \/ FenceCloseMermaid
    \/ FenceOpenMermaid
    \/ FenceToggleCode
    \/ AccumulateMermaid
    \/ VectorDispatch
    \/ LocalImageLine
    \/ ExternalImageLine
    \/ AppendText
    \/ MermaidRender
    \/ MermaidImage
    \/ ImageRender
    \/ SvgRender
    \/ Finish

Spec == Init /\ [][Next]_vars

-----------------------------------------------------------------------------
(* A pass seen from the adapters: the calls of renderMermaidDiagram and   *)
(* the temporary files of the terminal pass (direct-renderer.ts and its   *)
(* PNG variant), the PDF export and the ODT export (lib/odt-renderer.ts)  *)

\* the passes, and the outputFormat each asks for
Callers == {"terminal", "terminal-png", "pdf", "odt"}
CallerFormat(c) == IF c = "terminal-png" THEN "png" ELSE "svg"
\* distinct diagram sources (distinct hashes)
Diagrams == {1, 2}

scanIdleVars == <<lines, pc, i, scanVars, out, heldVars, histVars, inflight>>
\* what a pass seen from the adapters leaves alone
passIdleVars == <<scanIdleVars, mergeVars, configVars, restVars>>

PassInit ==
    /\ lines = <<>>
    /\ ScanFresh
    /\ CacheFresh
    /\ MergeIdle
    /\ ConfigIdle
    /\ RestIdle
    /\ tmpFiles = {}
    /\ execs = 0
    /\ call = NoCall
    /\ caller \in Callers
    /\ apc = "ready"
    /\ blocks = 0

\* one whole renderMermaidDiagram call made at a closing diagram fence
\* (direct-renderer.ts:194, odt-renderer.ts:138, the PDF export's line 180)
MermaidCall ==
    /\ apc = "ready" /\ blocks < MaxBlocks
    /\ \E d \in Diagrams, which \in BOOLEAN, configOk \in BOOLEAN,
          mmdOk \in BOOLEAN, exec \in ExecOutcomes, writeOk \in BOOLEAN :
         LET chk == CheckMermaidAvailable(mermaidAvailable, mermaidWarningShown, which)
             fmt == CallerFormat(caller)
             r == RenderMermaidDiagramFiles(tmpFiles, d, fmt, chk.avail,
                                            configOk, mmdOk, exec, writeOk) IN
         /\ mermaidAvailable' = chk.avail
         /\ mermaidWarningShown' = chk.shown
         /\ warnings' = warnings + chk.warned
         /\ probes' = probes + chk.probed
         /\ execs' = execs + r.execd
         /\ tmpFiles' = r.files
         /\ call' = [d |-> d, fmt |-> fmt, avail |-> chk.avail,
                     exec |-> IF r.execd = 1 THEN exec ELSE "none",
                     writeOk |-> writeOk, ret |-> r.ret, path |-> r.path,
                     error |-> r.error, probed |-> chk.probed, n |-> call.n + 1]
    /\ apc' = "returned"
    /\ UNCHANGED <<passIdleVars, caller, blocks>>

\* direct-renderer.ts:197-222: renderImage reads the file and
\* cleanupMermaidFile deletes it; the catch deletes nothing
TerminalMermaidBlock ==
    /\ apc = "returned" /\ caller \in {"terminal", "terminal-png"}
    /\ tmpFiles' = IF call.ret = "throw" THEN tmpFiles
                   ELSE CleanupMermaidFile(tmpFiles, call.path)
    /\ apc' = "ready"
    /\ blocks' = blocks + 1
    /\ UNCHANGED <<passIdleVars, cacheVars, execs, call, caller>>

\* the PDF export's processMermaidBlocks: fs.readFile of the file, then
\* cleanupMermaidFile; the catch deletes nothing
PdfMermaidBlock ==
    /\ apc = "returned" /\ caller = "pdf"
    /\ \E readOk \in BOOLEAN :
         tmpFiles' = IF call.ret = "throw" \/ ~readOk THEN tmpFiles
                     ELSE CleanupMermaidFile(tmpFiles, call.path)
    /\ apc' = "ready"
    /\ blocks' = blocks + 1
    /\ UNCHANGED <<passIdleVars, cacheVars, execs, call, caller>>

\* the copy of a diagram image in the export's image directory
OdtImage(n) == <<"odt-mermaid", n, "svg">>
\* the file of an embedded vector block in the export's image directory
OdtSvg(n) == <<"odt-svg", n, "svg">>

\* odt-renderer.ts:138-159: the file is copied into the image directory
\* and the original is deleted; the catch deletes nothing
OdtMermaidBlock ==
    /\ apc = "returned" /\ caller = "odt"
    /\ \E copyOk \in BOOLEAN :
         tmpFiles' = IF call.ret = "throw" \/ ~copyOk THEN tmpFiles
                     ELSE CleanupMermaidFile(tmpFiles \cup {OdtImage(blocks + 1)},
                                             call.path)
    /\ apc' = "ready"
    /\ blocks' = blocks + 1
    /\ UNCHANGED <<passIdleVars, cacheVars, execs, call, caller>>

\* lib/svg.ts:33-85 called at direct-renderer.ts:297: the temporary file
\* is written, encoded and deleted on both paths before the call resolves
TerminalSvgBlock ==
    /\ apc = "ready" /\ blocks < MaxBlocks
    /\ caller \in {"terminal", "terminal-png"}
    /\ \E writeOk \in BOOLEAN :
         LET tempFile == <<"embedded-svg", blocks + 1, "svg">>
             written == IF writeOk THEN tmpFiles \cup {tempFile} ELSE tmpFiles IN
         tmpFiles' = written \ {tempFile}
    /\ blocks' = blocks + 1
    /\ UNCHANGED <<passIdleVars, cacheVars, execs, call, caller, apc>>

\* processEmbeddedSvgs, which runs before processMermaidBlocks: the ODT
\* export (odt-renderer.ts:82-98) writes the extracted element to a file of
\* the image directory and references it; the PDF export inlines it as a
\* data URI.  A rejected writeFile ends the export.
ExportSvgBlock ==
    /\ apc = "ready" /\ blocks < MaxBlocks /\ call = NoCall
    /\ caller \in {"pdf", "odt"}
    /\ \E writeOk \in BOOLEAN :
         IF caller = "pdf" THEN UNCHANGED <<tmpFiles, apc>>
         ELSE IF writeOk THEN /\ tmpFiles' = tmpFiles \cup {OdtSvg(blocks + 1)}
                              /\ UNCHANGED apc
         ELSE /\ apc' = "done"
              /\ UNCHANGED tmpFiles
    /\ blocks' = blocks + 1
    /\ UNCHANGED <<passIdleVars, cacheVars, execs, call, caller>>

\* the end of the pass; odt-renderer.ts:218-240 writes and deletes the
\* temporary markdown file around the converter's run
PassEnd ==
    /\ apc = "ready"
    /\ apc' = "done"
    /\ UNCHANGED <<passIdleVars, cacheVars, tmpFiles, execs, call, caller, blocks>>

PassNext ==
    \/ MermaidCall
    \/ TerminalMermaidBlock
    \/ PdfMermaidBlock
    \/ OdtMermaidBlock
    \/ TerminalSvgBlock
    \/ ExportSvgBlock
    \/ PassEnd

PassSpec == PassInit /\ [][PassNext]_vars

-----------------------------------------------------------------------------
(* deepMerge over small documents *)

\* values a key can hold: numbers, null, an array, small objects
Leaves == {Num("1"), Num("2"), Null, Arr(<<Num("1")>>)}
\* the objects over the keys K with values from V
ObjectsOver(K, V) == UNION {{Obj(f) : f \in [D -> V]} : D \in SUBSET K}
InnerObjects == ObjectsOver({"x"}, Leaves)
MergeDocs == ObjectsOver({"a", "b"}, Leaves \cup InnerObjects)
\* further pairs: an inherited key, a deeper nesting, a string under an object
MergePairs ==
    (MergeDocs \X MergeDocs) \cup
    { <<EmptyObj, Obj([k \in {"constructor"} |-> Obj([x \in {"x"} |-> Num("2")])])>>,
      <<Obj([k \in {"a"} |-> Obj([x \in {"x"} |-> Obj([y \in {"y"} |-> Num("1")])])]),
        Obj([k \in {"a"} |-> Obj([x \in {"x"} |-> Obj([z \in {"z"} |-> Num("2")])])])>>,
      <<Obj([k \in {"a"} |-> Str("pdf")]), Obj([k \in {"a"} |-> EmptyObj])>> }

scanPassVars == <<scanIdleVars, cacheVars, passVars, restVars>>

MergeInit ==
    /\ lines = <<>>
    /\ ScanFresh
    /\ CacheFresh
    /\ PassIdle
    /\ ConfigIdle
    /\ RestIdle
    /\ \E pair \in MergePairs : base = pair[1] /\ override = pair[2]
    /\ merged = Undefined

\* a call deepMerge(base, override)
Merge ==
    /\ merged = Undefined
    /\ merged' = DeepMerge(base, override)
    /\ UNCHANGED <<scanPassVars, configVars, base, override>>

MergeNext == Merge

MergeSpec == MergeInit /\ [][MergeNext]_vars

-----------------------------------------------------------------------------
(* The configuration store: render passes and the settings menu *)

\* override documents a user may have persisted
UserDocs ==
    { EmptyObj,
      DefaultDocument,
      Obj([defaultProfile |-> Str("pdf")]),
      Obj([defaultProfile |-> Str("nope")]),
      Obj([profiles |-> Obj([custom |-> Profile("pdf")])]),
      Obj([defaultProfile |-> Str("custom"),
           profiles |-> Obj([custom |-> Profile("odt")])]),
      Obj([profiles |-> Obj([terminal |-> Null])]),
      Num("1") }
\* profile names a pass may be started with; "" is no name
ProfileNames == {"", "terminal", "pdf", "odt", "custom", "nope", "constructor"}

ConfigInit ==
    /\ lines = <<>>
    /\ ScanFresh
    /\ CacheFresh
    /\ PassIdle
    /\ MergeIdle
    /\ RestIdle
    /\ configFile \in {AbsentFile, CorruptFile} \cup {OkFile(d) : d \in UserDocs}
    /\ config = Undefined
    /\ outcome = NoOutcome
    /\ lastWrite = NoWrite
    /\ justReset = FALSE

\* the last write of config.json after a step of flow by that found the
\* file as before and, when wrote, left it as after
Written(last, by, wrote, before, after) ==
    IF wrote THEN [by |-> by, before |-> before.state, doc |-> after.doc]
    ELSE last

\* the profile load of a render pass: loadProfile('terminal') at
\* direct-renderer.ts:131, loadProfile(profileName) of the PDF and ODT exports
RenderLoadProfile ==
    /\ config = Undefined
    /\ \E name \in ProfileNames, writeOk \in BOOLEAN :
       LET l == LoadConfig(configFile, writeOk)
           r == LoadProfile(l.store, name) IN
       /\ configFile' = l.file
       /\ lastWrite' = Written(lastWrite, "render", l.file # configFile,
                               configFile, l.file)
       /\ outcome' = [op |-> "loadProfile", name |-> name, from |-> configFile.state,
                      threw |-> l.threw, store |-> l.store, kind |-> r.kind,
                      profile |-> r.profile, listed |-> r.listed]
       /\ justReset' = FALSE
       /\ UNCHANGED <<scanPassVars, mergeVars, config>>

\* settings-cli.ts:24-32 SettingsManager.init: loadConfig, and when it
\* rejects initializeConfig and loadConfig again
SettingsInit ==
    /\ config = Undefined
    /\ \E writeOk \in BOOLEAN :
       LET l == LoadConfig(configFile, writeOk)
           again == LoadConfig(InitializeConfig(l.file, writeOk), writeOk)
           final == IF l.threw THEN again ELSE l IN
       /\ configFile' = final.file
       /\ config' = final.store
       /\ lastWrite' = Written(lastWrite, "settings", final.file # configFile,
                               configFile, final.file)
       /\ outcome' = [op |-> "loadConfig", name |-> "", from |-> configFile.state,
                      threw |-> l.threw, store |-> l.store, kind |-> "",
                      profile |-> Undefined, listed |-> {}]
       /\ justReset' = FALSE
       /\ UNCHANGED <<scanPassVars, mergeVars>>

\* settings-cli.ts: option 9 of the main menu, the settings process exits
SettingsExit ==
    /\ config # Undefined
    /\ config' = Undefined
    /\ outcome' = NoOutcome
    /\ justReset' = FALSE
    /\ UNCHANGED <<scanPassVars, mergeVars, configFile, lastWrite>>

\* settings-cli.ts:680-689 saveConfig: the file after the store c is saved;
\* a failed write is reported and the file is left as it was
SaveConfig(file, c, saveOk) == IF saveOk THEN OkFile(c) ELSE file

\* settings-cli.ts:625-658 changeDefaultProfile with a valid selection
ChangeDefaultProfile ==
    /\ config # Undefined
    /\ \E key \in DOMAIN GetProperty(config, "profiles").v, saveOk \in BOOLEAN :
         LET c == SetProperty(config, "defaultProfile", Str(key))
             f == SaveConfig(configFile, c, saveOk) IN
         /\ config' = c
         /\ configFile' = f
         /\ lastWrite' = Written(lastWrite, "settings", saveOk, configFile, f)
    /\ justReset' = FALSE
    /\ UNCHANGED <<scanPassVars, mergeVars, outcome>>

\* settings-cli.ts:149-182 editTerminalSettings, option 1: the fallback
\* width of the terminal profile is set and the store saved
EditTerminalSettings ==
    /\ config # Undefined
    /\ LET profiles == GetProperty(config, "profiles")
           profile == GetProperty(profiles, "terminal") IN
       /\ Truthy(profile) /\ GetProperty(profile, "output") = Str("terminal")
       /\ \E saveOk \in BOOLEAN :
            LET edited == SetProperty(profile, "terminal",
                                      Obj([fallbackColumns |-> Num("100")]))
                c == SetProperty(config, "profiles",
                                 SetProperty(profiles, "terminal", edited))
                f == SaveConfig(configFile, c, saveOk) IN
            /\ config' = c
            /\ configFile' = f
            /\ lastWrite' = Written(lastWrite, "settings", saveOk, configFile, f)
    /\ justReset' = FALSE
    /\ UNCHANGED <<scanPassVars, mergeVars, outcome>>

\* settings-cli.ts:660-678 resetToDefaults, confirmed: initializeConfig and
\* loadConfig
ResetToDefaults ==
    /\ config # Undefined
    /\ \E writeOk \in BOOLEAN :
         LET l == LoadConfig(InitializeConfig(configFile, writeOk), writeOk) IN
         /\ configFile' = l.file
         /\ config' = l.store
         /\ lastWrite' = Written(lastWrite, "settings", l.file # configFile,
                                 configFile, l.file)
    /\ justReset' = TRUE
    /\ UNCHANGED <<scanPassVars, mergeVars, outcome>>

ConfigNext ==
    \/ RenderLoadProfile
    \/ SettingsInit
    \/ ChangeDefaultProfile
    \/ EditTerminalSettings
    \/ ResetToDefaults
    \/ SettingsExit

ConfigSpec == ConfigInit /\ [][ConfigNext]_vars

-----------------------------------------------------------------------------
(* The settings flows editing numeric settings: settings-cli.ts, settings.tsx *)

\* answers typed at a prompt or into the edit field
Inputs == { <<>>, <<"a">>, <<"0">>, <<"5">>, <<"7", "5">>, <<"1", "0", "0">>,
            <<"1", "0", "1">>, <<"5", "0", "0">>, <<"-", "1", "0">>,
            <<"0", ".", "5">>, <<"7", "5", "a">> }

\* everything the settings flows leave alone
oldVars == <<scanIdleVars, cacheVars, passVars, mergeVars, configVars, lateVars>>
settingsIdleVars == <<oldVars, imageVars, cliVars>>

SettingsSpecInit ==
    /\ lines = <<>>
    /\ ScanFresh
    /\ CacheFresh
    /\ PassIdle
    /\ MergeIdle
    /\ ConfigIdle
    /\ ImageIdle
    /\ CliIdle
    /\ LateIdle
    /\ settings = DefaultSettings
    /\ persisted = DefaultPersisted
    /\ app \in {"cli", "ink"}
    /\ edits = 0
    /\ lastEdit = NoEdit

\* settings-cli.ts:284-294 and 604-614: the image width prompt
ImageWidthAccepted(input) ==
    AtLeast(ParseFloat(input), 10) /\ AtMost(ParseFloat(input), 100)
ImageWidthEdit(profile, input) ==
    IF ImageWidthAccepted(input)
    THEN [profile EXCEPT !.widthPercent = DivideBy(ParseFloat(input), 100)]
    ELSE profile

\* settings-cli.ts:313-325 and 414-424: the DPI prompts
DpiAccepted(input) ==
    AtLeast(ParseInt(input), 72) /\ AtMost(ParseInt(input), 600)
ImageDpiEdit(profile, input) ==
    IF DpiAccepted(input) THEN [profile EXCEPT !.imagesDpi = <<ParseInt(input)>>]
    ELSE profile
MermaidDpiEdit(profile, input) ==
    IF DpiAccepted(input) THEN [profile EXCEPT !.mermaidDpi = <<ParseInt(input)>>]
    ELSE profile

\* settings-cli.ts:196-208: the transparency threshold prompt
ThresholdAccepted(input) ==
    AtLeast(ParseFloat(input), 0) /\ AtMost(ParseFloat(input), 1)
ThresholdEdit(profile, input) ==
    IF ThresholdAccepted(input)
    THEN [profile EXCEPT !.threshold = <<ParseFloat(input)>>]
    ELSE profile

\* the step of a settings-cli menu that leaves profile name as edited:
\* the store is changed in place, then saveConfig (680-689) writes all of it
CliEdit(name, key, input, accepted, edited) ==
    /\ app = "cli"
    /\ edits < MaxEdits
    /\ edits' = edits + 1
    /\ settings' = [settings EXCEPT ![name] = edited]
    /\ \E saveOk \in BOOLEAN :
          persisted' = IF accepted /\ saveOk THEN settings' ELSE persisted
    /\ lastEdit' = [flow |-> "cli", profile |-> name, key |-> key, input |-> input,
                    accepted |-> accepted, before |-> settings, after |-> settings']
    /\ UNCHANGED <<settingsIdleVars, app>>

\* settings-cli.ts:240-330 editImageSettings, cases '1' and '3'
EditImageSettings ==
    \E name \in DOMAIN settings, input \in Inputs :
       \/ CliEdit(name, "images.widthPercent", input, ImageWidthAccepted(input),
                  ImageWidthEdit(settings[name], input))
       \/ /\ settings[name].output # "terminal"
          /\ CliEdit(name, "images.dpi", input, DpiAccepted(input),
                     ImageDpiEdit(settings[name], input))

\* settings-cli.ts:332-433 editMermaidSettings, case '4'
EditMermaidSettings ==
    \E name \in DOMAIN settings, input \in Inputs :
       CliEdit(name, "mermaid.dpi", input, DpiAccepted(input),
               MermaidDpiEdit(settings[name], input))

\* settings-cli.ts:149-238 editTerminalSettings, case '3'
EditTransparencyThreshold ==
    /\ settings["terminal"].output = "terminal"
    /\ \E input \in Inputs :
          CliEdit("terminal", "terminal.transparency.threshold", input,
                  ThresholdAccepted(input), ThresholdEdit(settings["terminal"], input))

\* settings-cli.ts:544-623 editODTSettings, case '4'
EditODTSettings ==
    /\ settings["odt"].output = "odt"
    /\ \E input \in Inputs :
          CliEdit("odt", "images.widthPercent", input, ImageWidthAccepted(input),
                  ImageWidthEdit(settings["odt"], input))

\* settings.tsx:58-241 getSettings: the numeric settings listed for a profile
NumberSettings(profile) ==
    IF profile.output = "terminal"
    THEN {"terminal.transparency.threshold", "images.widthPercent"}
    ELSE {"images.widthPercent"}

\* settings.tsx:243-270 updateSetting: the profile with the value set
UpdateSetting(profile, key, newValue) ==
    IF key = "images.widthPercent"
    THEN [profile EXCEPT !.widthPercent = DivideBy(newValue, 100)]
    ELSE [profile EXCEPT !.threshold = <<newValue>>]

\* settings.tsx:288-310 useInput: Return pressed in edit mode on a numeric
\* setting, with updateSetting's write of the file (272-285); the store
\* follows only a write that succeeded
UseInput ==
    /\ app = "ink"
    /\ edits < MaxEdits
    /\ \E name \in DOMAIN settings, editValue \in Inputs, saveOk \in BOOLEAN :
       \E key \in NumberSettings(settings[name]) :
          LET value == ParseFloat(editValue)
              newConfig == [settings EXCEPT
                               ![name] = UpdateSetting(settings[name], key, value)]
              saved == ~IsNaN(value) /\ saveOk IN
          /\ settings' = IF saved THEN newConfig ELSE settings
          /\ persisted' = IF saved THEN newConfig ELSE persisted
          /\ lastEdit' = [flow |-> "ink", profile |-> name, key |-> key,
                          input |-> editValue, accepted |-> ~IsNaN(value),
                          before |-> settings, after |-> settings']
    /\ edits' = edits + 1
    /\ UNCHANGED <<settingsIdleVars, app>>

SettingsNext ==
    \/ EditImageSettings
    \/ EditMermaidSettings
    \/ EditTransparencyThreshold
    \/ EditODTSettings
    \/ UseInput

SettingsSpec == SettingsSpecInit /\ [][SettingsNext]_vars

-----------------------------------------------------------------------------
(* A process calling renderImage: part_006 (the image adapter) *)

\* process.stdout.columns, 0 when undefined
Columns == {0, 1, 3, 81, 100}
\* widthPercent arguments: undefined, or a fraction a binary float holds exactly
Percents == {<<>>, <<Frac(0, 1)>>, <<Frac(1, 4)>>, <<Frac(3, 4)>>, <<Frac(1, 1)>>}

imageIdleVars == <<oldVars, settingsVars, cliVars>>

ImageInit ==
    /\ lines = <<>>
    /\ ScanFresh
    /\ CacheFresh
    /\ PassIdle
    /\ MergeIdle
    /\ ConfigIdle
    /\ SettingsIdle
    /\ CliIdle
    /\ LateIdle
    /\ term \in [program : Programs, columns : Columns, chafa : BOOLEAN]
    /\ rcall = NoImageCall
    /\ rpc = "idle"
    /\ stderr = NoStderr
    /\ images = 0

\* a caller awaits renderImage(imagePath, undefined, transparency, backend,
\* alignment, widthPercent): direct-renderer.ts:197-204 and 336-343
RenderImageCall ==
    /\ rpc \in {"idle", "returned"}
    /\ images < MaxImages
    /\ images' = images + 1
    /\ \E exists \in BOOLEAN, widthPercent \in Percents :
          rcall' = [NoImageCall EXCEPT !.exists = exists,
                                       !.widthPercent = widthPercent]
    /\ rpc' = "access"
    /\ UNCHANGED <<imageIdleVars, term, stderr>>

\* part_006:16-34: fs.access, then the choice of the protocol
Access ==
    /\ rpc = "access"
    /\ IF ~rcall.exists
       THEN /\ rcall' = [rcall EXCEPT !.result = RenderImageCatch(ImageFile)]
            /\ stderr' = [stderr EXCEPT !.failedToRender = @ + 1]
            /\ rpc' = "returned"
       ELSE /\ rpc' = CASE term.program = "iTerm.app" -> "iterm"
                        [] term.program = "kitty" -> "kitty"
                        [] OTHER -> "chafa"
            /\ UNCHANGED <<rcall, stderr>>
    /\ UNCHANGED <<imageIdleVars, term, images>>

\* part_006:79-84 renderITermImage; a failed read is caught at 37-40
RenderITermImage ==
    /\ rpc = "iterm"
    /\ \E readOk \in BOOLEAN :
       IF readOk
       THEN /\ rcall' = [rcall EXCEPT
                            !.result = [kind |-> "return", value |-> <<Esc, ImageFile>>]]
            /\ UNCHANGED stderr
       ELSE /\ rcall' = [rcall EXCEPT !.readFailed = TRUE,
                                      !.result = RenderImageCatch(ImageFile)]
            /\ stderr' = [stderr EXCEPT !.failedToRender = @ + 1]
    /\ rpc' = "returned"
    /\ UNCHANGED <<imageIdleVars, term, images>>

\* part_006:89: execAsync starts `kitty +kitten icat`
KittySpawn ==
    /\ rpc = "kitty"
    /\ \E child \in ChildOutcomes : rcall' = [rcall EXCEPT !.child = child]
    /\ rpc' = "kitty_wait"
    /\ UNCHANGED <<imageIdleVars, term, stderr, images>>

\* part_006:89-94: the promise of execAsync settles when the child ends;
\* on failure renderChafaSixel(imagePath) is called with no other argument
KittySettle ==
    /\ rpc = "kitty_wait"
    /\ rcall.child # "hang"
    /\ IF rcall.child = "error"
       THEN /\ rcall' = [rcall EXCEPT !.kittyFailed = TRUE, !.widthPercent = <<>>,
                                      !.child = "none"]
            /\ rpc' = "chafa"
       ELSE /\ rcall' = [rcall EXCEPT
                            !.result = [kind |-> "return",
                                        value |-> Stdout(rcall.child, ImageFile)]]
            /\ rpc' = "returned"
    /\ UNCHANGED <<imageIdleVars, term, stderr, images>>

\* part_006:50-71: the command is built and execAsync starts chafa, with
\* maxBuffer and without a timeout; a missing chafa is a failure
ChafaSpawn ==
    /\ rpc = "chafa"
    /\ \E child \in ChildOutcomes :
          /\ ~term.chafa => child = "error"
          /\ rcall' = [rcall EXCEPT
                          !.child = child,
                          !.size = <<TargetColumns(term.columns, rcall.widthPercent)>>]
    /\ rpc' = "chafa_wait"
    /\ UNCHANGED <<imageIdleVars, term, stderr, images>>

\* part_006:71-76: the promise settles when the child ends
ChafaSettle ==
    /\ rpc = "chafa_wait"
    /\ rcall.child # "hang"
    /\ IF rcall.child = "error"
       THEN /\ rcall' = [rcall EXCEPT
                            !.chafaFailed = TRUE,
                            !.result = [kind |-> "return", value |-> ChafaFailed(ImageFile)]]
            /\ stderr' = [stderr EXCEPT !.chafaErrors = @ + 1]
       ELSE /\ rcall' = [rcall EXCEPT
                            !.result = [kind |-> "return",
                                        value |-> Stdout(rcall.child, ImageFile)]]
            /\ UNCHANGED stderr
    /\ rpc' = "returned"
    /\ UNCHANGED <<imageIdleVars, term, images>>

ImageNext ==
    \/ RenderImageCall
    \/ Access
    \/ RenderITermImage
    \/ KittySpawn
    \/ KittySettle
    \/ ChafaSpawn
    \/ ChafaSettle

ImageSpec == ImageInit /\ [][ImageNext]_vars

\* every step that can be taken is taken in the end: the event loop runs
\* each continuation whose promise has settled
ImageLiveSpec == ImageSpec /\ WF_vars(ImageNext)

-----------------------------------------------------------------------------
(* One run of mmm: index-direct.tsx main *)

InputFiles == {"", "README.md"}
ProfileFlags == {"", "terminal", "pdf", "print", "odt", "nosuch"}

cliIdleVars == <<oldVars, settingsVars, imageVars>>

CliInit ==
    /\ lines = <<>>
    /\ ScanFresh
    /\ CacheFresh
    /\ PassIdle
    /\ MergeIdle
    /\ ConfigIdle
    /\ SettingsIdle
    /\ ImageIdle
    /\ LateIdle
    /\ argv \in [file : InputFiles, pdf : BOOLEAN, odt : BOOLEAN,
                 settings : BOOLEAN, check : BOOLEAN, profile : ProfileFlags,
                 isTTY : BOOLEAN]
    /\ run = NoRun

\* index-direct.tsx:89-92 hasStdinData
HasStdinData(a) == ~a.isTTY

\* the run of an export or of the terminal renderer up to its profile load:
\* loadProfile(name), and for an export the test of profile.output
\* (part_008:38-42, odt-renderer.ts:22-26, direct-renderer.ts:131)
ProfileLoad(mode, source, name, output) ==
    LET r == LoadProfile(DefaultConfig, name) IN
    IF r.kind = "not found"
    THEN [mode |-> mode, source |-> source, profile |-> "", status |-> "exit 1",
          error |-> "profile not found"]
    ELSE IF output # "terminal" /\ GetProperty(r.profile, "output").v # output
    THEN [mode |-> mode, source |-> source, profile |-> "", status |-> "exit 1",
          error |-> "profile not configured for this output"]
    ELSE [mode |-> mode, source |-> source, profile |-> name, status |-> "ok",
          error |-> ""]

\* the flag or, when it is empty, the default of the mode
FlagOr(flag, default) == IF flag # "" THEN flag ELSE default

\* direct-renderer.ts:131 loadProfile('terminal')
TerminalProfile(a) == "terminal"

\* index-direct.tsx:162-167: what the terminal renderer is given
TerminalSource(a) == IF HasStdinData(a) THEN "stdin" ELSE "file"

\* index-direct.tsx:97-108 --settings
MainSettings ==
    /\ run = NoRun
    /\ argv.settings
    /\ run' = [NoRun EXCEPT !.mode = "settings", !.status = "spawned"]
    /\ UNCHANGED <<cliIdleVars, argv>>

\* index-direct.tsx:113-119 --check
MainCheck ==
    /\ run = NoRun
    /\ ~argv.settings /\ argv.check
    /\ \E hasImageSupport \in BOOLEAN :
          run' = [NoRun EXCEPT !.mode = "check",
                               !.status = IF hasImageSupport THEN "exit 0" ELSE "exit 1"]
    /\ UNCHANGED <<cliIdleVars, argv>>

\* index-direct.tsx:121-128: neither a file nor stdin
MainUsage ==
    /\ run = NoRun
    /\ ~argv.settings /\ ~argv.check
    /\ argv.file = "" /\ ~HasStdinData(argv)
    /\ run' = [NoRun EXCEPT !.mode = "usage", !.status = "exit 1",
                            !.error = "no input"]
    /\ UNCHANGED <<cliIdleVars, argv>>

\* index-direct.tsx:131-142 --pdf
MainPdf ==
    /\ run = NoRun
    /\ ~argv.settings /\ ~argv.check
    /\ argv.file # "" \/ HasStdinData(argv)
    /\ argv.pdf
    /\ run' = IF argv.file = ""
              THEN [NoRun EXCEPT !.mode = "pdf", !.status = "exit 1",
                                 !.error = "requires a file"]
              ELSE ProfileLoad("pdf", "file", FlagOr(argv.profile, "pdf"), "pdf")
    /\ UNCHANGED <<cliIdleVars, argv>>

\* index-direct.tsx:143-154 --odt
MainOdt ==
    /\ run = NoRun
    /\ ~argv.settings /\ ~argv.check
    /\ argv.file # "" \/ HasStdinData(argv)
    /\ ~argv.pdf /\ argv.odt
    /\ run' = IF argv.file = ""
              THEN [NoRun EXCEPT !.mode = "odt", !.status = "exit 1",
                                 !.error = "requires a file"]
              ELSE ProfileLoad("odt", "file", FlagOr(argv.profile, "odt"), "odt")
    /\ UNCHANGED <<cliIdleVars, argv>>

\* index-direct.tsx:155-167: terminal rendering
MainTerminal ==
    /\ run = NoRun
    /\ ~argv.settings /\ ~argv.check
    /\ argv.file # "" \/ HasStdinData(argv)
    /\ ~argv.pdf /\ ~argv.odt
    /\ run' = ProfileLoad("terminal", TerminalSource(argv), TerminalProfile(argv),
                          "terminal")
    /\ UNCHANGED <<cliIdleVars, argv>>

CliNext ==
    \/ MainSettings
    \/ MainCheck
    \/ MainUsage
    \/ MainPdf
    \/ MainOdt
    \/ MainTerminal

CliSpec == CliInit /\ [][CliNext]_vars

-----------------------------------------------------------------------------
(* Concurrent callers of renderMermaidDiagram (lib/mermaid.ts:128-155, 212) *)

\* the callers that may have a call in flight
Flights == 1..MaxFlights

probeIdleVars == <<scanIdleVars, passVars, mergeVars, configVars, settingsVars,
                   imageVars, cliVars, exportVars, inkVars, viewerVars,
                   pdfVars>>

ProbeInit ==
    /\ lines = <<>>
    /\ ScanFresh
    /\ CacheFresh
    /\ PassIdle
    /\ MergeIdle
    /\ ConfigIdle
    /\ RestIdle

\* lines 134-141: the call tests the cache; with nothing cached it starts
\* 'which mmdc' and waits for it
CheckEnter(f) ==
    /\ flights[f].pc = "idle"
    /\ IF mermaidAvailable # "undefined"
       THEN /\ flights' = [flights EXCEPT ![f] = [pc |-> "returned", got |-> mermaidAvailable]]
            /\ UNCHANGED probes
       ELSE /\ flights' = [flights EXCEPT ![f] = [pc |-> "probing", got |-> ""]]
            /\ probes' = probes + 1
    /\ UNCHANGED <<mermaidAvailable, mermaidWarningShown, warnings, probeIdleVars>>

\* lines 141-154: the subprocess has ended and the call goes on after its await
CheckSettle(f) ==
    /\ flights[f].pc = "probing"
    /\ \E which \in BOOLEAN :
         LET chk == CheckMermaidAvailable("undefined", mermaidWarningShown, which) IN
         /\ mermaidAvailable' = chk.avail
         /\ mermaidWarningShown' = chk.shown
         /\ warnings' = warnings + chk.warned
         /\ flights' = [flights EXCEPT ![f] = [pc |-> "returned", got |-> chk.avail]]
    /\ UNCHANGED <<probes, probeIdleVars>>

ProbeNext ==
    \/ \E f \in Flights : CheckEnter(f)
    \/ \E f \in Flights : CheckSettle(f)

ProbeSpec == ProbeInit /\ [][ProbeNext]_vars

-----------------------------------------------------------------------------
(* The preprocessing of the exports: the PDF export's lines 73-221 and
   lib/odt-renderer.ts:58-199 *)

\* a token of the content with the source line it comes from (0: generated)
XTok(t, n) == [t |-> t, n |-> n]
Tagged(ls) == [k \in 1..Len(ls) |-> [m \in 1..Len(ls[k]) |-> XTok(ls[k][m], k)]]
Plain(line) == [m \in 1..Len(line) |-> line[m].t]
LineBreak == XTok("\n", 0)

RECURSIVE FlatX(_)
\* the content as one string: each line followed by '\n'
FlatX(content) ==
    IF content = <<>> THEN <<>>
    ELSE content[1] \o <<LineBreak>> \o FlatX(Tail(content))

RECURSIVE SplitX(_, _)
\* content.split('\n'); cur is the line being read
SplitX(flat, cur) ==
    IF flat = <<>> THEN (IF cur = <<>> THEN <<>> ELSE <<cur>>)
    ELSE IF flat[1].t = "\n" THEN <<cur>> \o SplitX(Tail(flat), <<>>)
    ELSE SplitX(Tail(flat), Append(cur, flat[1]))

\* the first position from p on that holds no line break (\s*)
SkipSpace(flat, p) ==
    LET rest == {q \in p..Len(flat) : flat[q].t # "\n"} IN
    IF rest = {} THEN Len(flat) + 1 ELSE SetMin(rest)

\* /(<div[^>]*>\s*)?<svg[\s\S]*?<\/svg>(\s*<\/div>)?/gi tried at position s:
\* the last position of the match, 0 when there is none
SvgBlockEnd(flat, s) ==
    LET o == IF flat[s].t = "<div" THEN SkipSpace(flat, s + 1) ELSE s IN
    IF o > Len(flat) \/ ~IsSvgOpen(flat[o].t) THEN 0
    ELSE LET closes == {q \in (o + 1)..Len(flat) : IsSvgClose(flat[q].t)} IN
         IF closes = {} THEN 0
         ELSE LET c == SetMin(closes)
                  after == SkipSpace(flat, c + 1) IN
              IF after <= Len(flat) /\ flat[after].t = "</div>" THEN after ELSE c

\* what a vector block is replaced by: the PDF export's lines 130-131, lib/odt-renderer.ts:92
SvgReplacement(mode) ==
    IF mode = "pdf" THEN <<XTok("<img svg>", 0)>>
    ELSE <<XTok("![SVG Diagram](tmp)", 0), XTok("{width=90%}", 0)>>

RECURSIVE ReplaceSvgBlocks(_, _, _)
\* the matches of the regular expression from position p on, each replaced
ReplaceSvgBlocks(flat, p, mode) ==
    LET starts == {s \in p..Len(flat) : SvgBlockEnd(flat, s) # 0} IN
    IF starts = {} THEN SubSeq(flat, p, Len(flat))
    ELSE LET s == SetMin(starts) IN
         SubSeq(flat, p, s - 1) \o SvgReplacement(mode)
             \o ReplaceSvgBlocks(flat, SvgBlockEnd(flat, s) + 1, mode)

\* processEmbeddedSvgs: every match holds an <svg> element, so
\* extractSvgFromHtml returns it and every match is replaced
ProcessEmbeddedSvgs(content, mode) ==
    SplitX(ReplaceSvgBlocks(FlatX(content), 1, mode), <<>>)

MathTokens == {"$x$"}

\* processLatexMath (PDF only): an inline formula becomes a placeholder element
ProcessLatexMath(content) ==
    [k \in 1..Len(content) |->
        [m \in 1..Len(content[k]) |->
            IF content[k][m].t \in MathTokens
            THEN XTok("<span math-inline>", 0) ELSE content[k][m]]]

\* what a rendered diagram is replaced by, with the empty line that follows:
\* the PDF export's lines 189-190, lib/odt-renderer.ts:151
MermaidReplacement(mode) ==
    IF mode = "pdf" THEN << <<XTok("<img mermaid>", 0)>>, <<>> >>
    ELSE << <<XTok("![Mermaid Diagram](tmp)", 0), XTok("{width=90%}", 0)>>, <<>> >>

\* the catch path: the block is put back as a code block
MermaidFallback(body) ==
    << <<XTok(Fence, 0), XTok("mermaid", 0)>> >> \o body \o << <<XTok(Fence, 0)>> >>

RECURSIVE MermaidLoop(_, _, _, _, _, _)
\* the loop of processMermaidBlocks from line k on; ok tells whether the
\* diagrams of this run render
MermaidLoop(content, k, inMermaid, body, mode, ok) ==
    IF k > Len(content) THEN <<>>
    ELSE LET line == content[k] IN
         IF StartsWith(Plain(line), Fence)
         THEN IF inMermaid
              THEN (IF ok THEN MermaidReplacement(mode) ELSE MermaidFallback(body))
                       \o MermaidLoop(content, k + 1, FALSE, <<>>, mode, ok)
              ELSE IF LangMatch(Plain(line)) = "mermaid"
                   THEN MermaidLoop(content, k + 1, TRUE, <<>>, mode, ok)
                   ELSE <<line>> \o MermaidLoop(content, k + 1, FALSE, <<>>, mode, ok)
         ELSE IF inMermaid
              THEN MermaidLoop(content, k + 1, TRUE, Append(body, line), mode, ok)
              ELSE <<line>> \o MermaidLoop(content, k + 1, FALSE, <<>>, mode, ok)

ProcessMermaidBlocks(content, mode, ok) ==
    MermaidLoop(content, 1, FALSE, <<>>, mode, ok)

\* /!\[([^\]]*)\]\(([^)]+)\)(?:\{[^}]+\})?/g matches this token
IsImageRef(t) == t \in ImageTokens \cup {"![SVG Diagram](tmp)", "![Mermaid Diagram](tmp)"}
IsAttr(t) == t = "{width=90%}"

RECURSIVE WidthLine(_)
\* an image reference with no attribute block after it gets one
WidthLine(line) ==
    IF line = <<>> THEN <<>>
    ELSE IF IsImageRef(line[1].t) /\ ~(Len(line) >= 2 /\ IsAttr(line[2].t))
         THEN <<line[1], XTok("{width=N%}", 0)>> \o WidthLine(Tail(line))
         ELSE <<line[1]>> \o WidthLine(Tail(line))

AddImageWidthAttributes(content) == [k \in 1..Len(content) |-> WidthLine(content[k])]

MathLine == <<"$x$">>
ExportAlphabet == {Txt, BareFence, MermaidFence, ImageLine, SvgWhole, DivOpen, DivClose, MathLine}
MaxExportLines == 3
ExportDocs ==
    (UNION {[1..n -> ExportAlphabet] : n \in 1..MaxExportLines})
        \cup { <<JsFence, MermaidFence, Txt, BareFence>>,
               <<BareFence, SvgOpen, SvgClose, BareFence>> }
ExportModes == {"pdf", "odt"}

exportIdleVars == <<scanIdleVars, cacheVars, passVars, mergeVars, configVars, settingsVars,
                    imageVars, cliVars, probeVars, inkVars, viewerVars, pdfVars>>

ExportInit ==
    /\ lines = <<>>
    /\ ScanFresh
    /\ CacheFresh
    /\ PassIdle
    /\ MergeIdle
    /\ ConfigIdle
    /\ SettingsIdle
    /\ ImageIdle
    /\ CliIdle
    /\ ProbeIdle
    /\ InkIdle
    /\ ViewerIdle
    /\ PdfIdle
    /\ \E mode \in ExportModes, doc \in ExportDocs :
          export = [pc |-> "read", mode |-> mode, src |-> doc, content |-> Tagged(doc)]

ExportStep(from, to, content) ==
    /\ export.pc = from
    /\ export' = [export EXCEPT !.pc = to, !.content = content]
    /\ UNCHANGED exportIdleVars

\* processMermaidAndSvgBlocks, first step
SvgStage ==
    /\ export.mode \in ExportModes
    /\ ExportStep("read", "svgs", ProcessEmbeddedSvgs(export.content, export.mode))

\* the PDF export's line 77
LatexStage ==
    /\ export.mode = "pdf"
    /\ ExportStep("svgs", "math", ProcessLatexMath(export.content))

MermaidStage ==
    /\ export.mode \in ExportModes
    /\ \E ok \in BOOLEAN :
       ExportStep(IF export.mode = "pdf" THEN "math" ELSE "svgs", "mermaid",
                  ProcessMermaidBlocks(export.content, export.mode, ok))

\* marked.parse is handed the processed content
PdfCompose ==
    /\ export.mode = "pdf"
    /\ ExportStep("mermaid", "composed", export.content)

\* lib/odt-renderer.ts:36-42: pandoc is handed the content with width attributes
OdtCompose ==
    /\ export.mode = "odt"
    /\ ExportStep("mermaid", "composed", AddImageWidthAttributes(export.content))

ExportNext ==
    \/ SvgStage
    \/ LatexStage
    \/ MermaidStage
    \/ PdfCompose
    \/ OdtCompose

ExportSpec == ExportInit /\ [][ExportNext]_vars

-----------------------------------------------------------------------------
(* The Ink settings app saving edits: settings.tsx:243-336 *)

\* settings toggled with Return or Space (boolean and select items)
InkKeys == {"defaultProfile", "terminal.transparency.enabled", "tables.wordWrap"}

\* the value one key press gives the item: lines 327-332
NextValue(key, v) ==
    IF key = "defaultProfile"
    THEN (IF v = "terminal" THEN "pdf" ELSE "terminal")
    ELSE (IF v = "true" THEN "false" ELSE "true")

\* the configuration the app starts with
InkConfig == [k \in InkKeys |-> IF k = "defaultProfile" THEN "terminal" ELSE "true"]

inkIdleVars == <<scanIdleVars, cacheVars, passVars, mergeVars, configVars, settingsVars,
                 imageVars, cliVars, probeVars, exportVars, viewerVars, pdfVars>>

InkInit ==
    /\ lines = <<>>
    /\ ScanFresh
    /\ CacheFresh
    /\ PassIdle
    /\ MergeIdle
    /\ ConfigIdle
    /\ SettingsIdle
    /\ ImageIdle
    /\ CliIdle
    /\ ProbeIdle
    /\ ExportIdle
    /\ ViewerIdle
    /\ PdfIdle
    /\ ink = [config |-> InkConfig, file |-> InkConfig, calls |-> <<>>]

\* lines 323-332 and 243-277: a key press on an item calls updateSetting,
\* which copies the store of the current render, sets the value in the copy
\* and waits for fs.mkdir
UpdateSettingCall ==
    /\ ink.config # <<>>
    /\ Len(ink.calls) < MaxInkEdits
    /\ \E key \in InkKeys :
         LET value == NextValue(key, ink.config[key])
             newConfig == [ink.config EXCEPT ![key] = value] IN
         ink' = [ink EXCEPT !.calls = Append(@, [key |-> key, value |-> value,
                                                 newConfig |-> newConfig,
                                                 pc |-> "saving"])]
    /\ UNCHANGED inkIdleVars

\* line 278: the write of config.json of one call ends
UpdateSettingWrite ==
    /\ \E c \in 1..Len(ink.calls), writeOk \in BOOLEAN :
         /\ ink.calls[c].pc = "saving"
         /\ ink' = [ink EXCEPT
                      !.file = IF writeOk THEN ink.calls[c].newConfig ELSE @,
                      !.calls[c].pc = IF writeOk THEN "written" ELSE "failed"]
    /\ UNCHANGED inkIdleVars

\* lines 279-281: setConfig(newConfig) after the write
UpdateSettingStore ==
    /\ \E c \in 1..Len(ink.calls) :
         /\ ink.calls[c].pc = "written"
         /\ ink' = [ink EXCEPT !.config = ink.calls[c].newConfig,
                               !.calls[c].pc = "saved"]
    /\ UNCHANGED inkIdleVars

InkNext ==
    \/ UpdateSettingCall
    \/ UpdateSettingWrite
    \/ UpdateSettingStore

InkSpec == InkInit /\ [][InkNext]_vars

-----------------------------------------------------------------------------
(* The interactive viewer: index.tsx:110-138, components/MarkdownViewer.tsx:63-67 *)

\* index.tsx:124, 128: the lines a page key moves by
PageLines == 10
\* MarkdownViewer.tsx:65: the height used when process.stdout.rows is not set
DefaultRows == 24
\* MarkdownViewer.tsx:66-67: the rows of the terminal the window leaves free
ReservedRows == 4
\* index.tsx:136 Number.MAX_SAFE_INTEGER is 2^53 - 1; the model's integers end
\* at 2^31 - 1 and 2^30 stands for it: like it, it is beyond every document
\* length and stays so under the key presses of a run
MaxSafeInteger == 2^30

Min2(a, b) == IF a < b THEN a ELSE b
Max2(a, b) == IF a > b THEN a ELSE b

\* process.stdout?.rows || 24
TerminalHeight(rows) == IF rows = 0 THEN DefaultRows ELSE rows

\* the largest offset of the window over a document of n lines
MaxOffset(n, rows) == Max2(0, n - (TerminalHeight(rows) - ReservedRows))

\* MarkdownViewer.tsx:66 safeOffset: the first line of the visible window
SafeOffset(scrollOffset, n, rows) == Max2(0, Min2(scrollOffset, MaxOffset(n, rows)))

\* lines.length of the documents viewed and process.stdout.rows (0: not set)
LineCounts == {5, 21, 40}
Rows == {0, 10}

viewerIdleVars == <<scanIdleVars, cacheVars, passVars, mergeVars, configVars, settingsVars,
                    imageVars, cliVars, probeVars, exportVars, inkVars, pdfVars>>

ViewerInit ==
    /\ lines = <<>>
    /\ ScanFresh
    /\ CacheFresh
    /\ PassIdle
    /\ MergeIdle
    /\ ConfigIdle
    /\ SettingsIdle
    /\ ImageIdle
    /\ CliIdle
    /\ ProbeIdle
    /\ ExportIdle
    /\ InkIdle
    /\ PdfIdle
    /\ \E n \in LineCounts, rows \in Rows :
          viewer = [scrollOffset |-> 0, lineCount |-> n, rows |-> rows, keys |-> 0,
                    last |-> NoKey]

\* the viewer shows a document and takes a key
Viewing == viewer.lineCount > 0 /\ viewer.keys < MaxKeys

\* one key press: setScrollOffset(next) and the render that follows
KeyPress(key, next) ==
    /\ viewer' = [viewer EXCEPT
                    !.scrollOffset = next,
                    !.keys = @ + 1,
                    !.last = [key |-> key,
                              before |-> SafeOffset(viewer.scrollOffset, viewer.lineCount,
                                                    viewer.rows),
                              after |-> SafeOffset(next, viewer.lineCount, viewer.rows)]]
    /\ UNCHANGED viewerIdleVars

\* index.tsx:115-117
UpArrow == Viewing /\ KeyPress("up", Max2(0, viewer.scrollOffset - 1))
\* index.tsx:119-121
DownArrow == Viewing /\ KeyPress("down", viewer.scrollOffset + 1)
\* index.tsx:123-125
PageUp == Viewing /\ KeyPress("pageUp", Max2(0, viewer.scrollOffset - PageLines))
\* index.tsx:127-129
PageDown == Viewing /\ KeyPress("pageDown", viewer.scrollOffset + PageLines)
\* index.tsx:131-133
Home == Viewing /\ KeyPress("home", 0)
\* index.tsx:135-137
End == Viewing /\ KeyPress("end", MaxSafeInteger)

ViewerNext ==
    \/ UpArrow
    \/ DownArrow
    \/ PageUp
    \/ PageDown
    \/ Home
    \/ End

ViewerSpec == ViewerInit /\ [][ViewerNext]_vars

-----------------------------------------------------------------------------
(* generatePdf: the PDF export's lines 514-595 *)

\* most images of the page still loading when the content is set
MaxPending == 3
\* the looks at the page counted by the history field polls; later ones are not told apart
MaxPolls == 3

pdfIdleVars == <<scanIdleVars, cacheVars, passVars, mergeVars, configVars, settingsVars,
                 imageVars, cliVars, probeVars, exportVars, inkVars, viewerVars>>

\* math: processLatexMath left placeholder elements in the page.
\* protocolTimeout: the browser library of the build rejects an evaluate
\* call whose promise stays pending (later versions do, after minutes;
\* earlier ones wait without limit); the call sets no timeout of its own
PdfInit ==
    /\ lines = <<>>
    /\ ScanFresh
    /\ CacheFresh
    /\ PassIdle
    /\ MergeIdle
    /\ ConfigIdle
    /\ SettingsIdle
    /\ ImageIdle
    /\ CliIdle
    /\ ProbeIdle
    /\ ExportIdle
    /\ InkIdle
    /\ ViewerIdle
    /\ \E math \in BOOLEAN, protocolTimeout \in BOOLEAN :
          pdf = [NoPdf EXCEPT !.pc = "launch", !.math = math,
                              !.protocolTimeout = protocolTimeout]

PdfStep(from, next) ==
    /\ pdf.pc = from
    /\ pdf' = next
    /\ UNCHANGED pdfIdleVars

\* the result once the browser is closed in the finally block
Closed(result) == [pdf EXCEPT !.pc = "closed", !.result = result]

\* lines 515-518: puppeteer.launch, outside the try block
Launch ==
    /\ pdf.pc = "launch"
    /\ \E ok \in BOOLEAN :
         PdfStep("launch", IF ok THEN [pdf EXCEPT !.pc = "content"]
                           ELSE Closed("launch failed"))

\* lines 521-536: the page is loaded.  The KaTeX script of the document's
\* head loads or not; the document's own script then renders every
\* placeholder with it, or with the script missing leaves the formula as
\* text; pending images are left to the next step
SetContent ==
    /\ pdf.pc = "content"
    /\ \E ok \in BOOLEAN, katexLoaded \in BOOLEAN, pending \in 0..MaxPending :
         PdfStep("content",
                 IF ok
                 THEN [pdf EXCEPT !.pc = "images", !.katexLoaded = katexLoaded,
                                  !.rendered = pdf.math /\ katexLoaded,
                                  !.pending = pending]
                 ELSE Closed("navigation failed"))

\* lines 539-548: an image still loading fires load or error, and either
\* resolves its promise
ImageSettles ==
    /\ pdf.pending > 0
    /\ \E loaded \in BOOLEAN :
         PdfStep("images", [pdf EXCEPT !.pending = @ - 1,
                                       !.broken = IF loaded THEN @ ELSE @ + 1])

\* lines 539-548 resolved, 551-559: the wait for the math starts; with no
\* placeholder in the page it resolves at once
WaitForMath ==
    /\ pdf.pending = 0
    /\ PdfStep("images", [pdf EXCEPT !.pc = IF pdf.math THEN "check" ELSE "print"])

\* lines 561-569 checkRendered: resolve when a .katex element exists,
\* otherwise look again in 100 ms
CheckRendered ==
    /\ pdf.math
    /\ PdfStep("check", [pdf EXCEPT !.pc = IF pdf.rendered THEN "print" ELSE "timer",
                                    !.polls = Min2(@ + 1, MaxPolls)])

\* the timer of line 566 fires
TimerFires ==
    /\ pdf.math
    /\ PdfStep("timer", [pdf EXCEPT !.pc = "check"])

\* the library gives up the evaluate call: generatePdf rejects
EvaluateTimesOut ==
    /\ pdf.protocolTimeout
    /\ PdfStep("timer", Closed("evaluate timed out"))

\* lines 574-593: the pause and page.pdf, then the finally block
PrintPdf ==
    /\ pdf.pc = "print"
    /\ \E ok \in BOOLEAN :
         PdfStep("print", Closed(IF ok THEN "pdf" ELSE "print failed"))

PdfNext ==
    \/ Launch
    \/ SetContent
    \/ ImageSettles
    \/ WaitForMath
    \/ CheckRendered
    \/ TimerFires
    \/ EvaluateTimesOut
    \/ PrintPdf

PdfSpec == PdfInit /\ [][PdfNext]_vars

\* every step that can be taken is taken in the end, and a library that
\* limits the evaluate call does end it
PdfLiveSpec == PdfSpec /\ WF_vars(PdfNext) /\ SF_vars(EvaluateTimesOut)

-----------------------------------------------------------------------------
(* Properties of the terminal scanner *)

Last(o) == o[Len(o)]
BlockPcs == {"mermaid_render", "mermaid_image", "image", "svg"}

\* two writes made for the same block
SameBlock(a, b) ==
    /\ a.kind = "block" /\ b.kind = "block"
    /\ a.blk = b.blk /\ a.from = b.from /\ a.to = b.to

\* line n was written as text
WrittenAsText(n) ==
    \E k \in 1..Len(out) : \E m \in 1..Len(out[k].lns) : out[k].lns[m] = n

\* line n is part of what some write renders
Covered(n) ==
    \/ WrittenAsText(n)
    \/ \E k \in 1..Len(out) :
          out[k].kind = "block" /\ out[k].from <= n /\ n <= out[k].to

\* C1: the writes reach the sink in line order: every write made for lines
\* before a block precedes the block's writes, the block's writes precede
\* every write made for later lines, blocks come in source order, and the
\* lines of one text run keep their order.
C1_LineOrder ==
    /\ \A a \in 1..Len(out), b \in 1..Len(out) :
          a < b => (out[a].to < out[b].from \/ SameBlock(out[a], out[b]))
    /\ \A a \in 1..Len(out) : \A k \in 1..(Len(out[a].lns) - 1) :
          out[a].lns[k] < out[a].lns[k + 1]

\* text, a block, text and a second block were written and the scan is over
C1_Witness ==
    /\ pc = "done"
    /\ \E a, b, c, d \in 1..Len(out) :
          /\ a < b /\ b < c /\ c < d
          /\ out[a].kind = "text" /\ out[b].kind = "block"
          /\ out[c].kind = "text" /\ out[d].kind = "block"
          /\ ~SameBlock(out[b], out[d])

SetMax(S) == CHOOSE x \in S : \A y \in S : x >= y

\* the fence state section 4.4 of the specification assigns after line n:
\* any fence closes an open fence, a mermaid fence opens a diagram, any
\* other fence opens generic code; so fences open and close in turn and the
\* last of an odd number of fences is the one still open
FenceStateAfter(ls, n) ==
    LET fences == {m \in 1..n : StartsWith(ls[m], Fence)} IN
    IF Cardinality(fences) % 2 = 0 THEN "Text"
    ELSE IF LangMatch(ls[SetMax(fences)]) = "mermaid" THEN "Diagram" ELSE "Code"

\* line n lies between an opening generic code fence and its closing fence
InsideCodeFence(ls, n) ==
    /\ ~StartsWith(ls[n], Fence)
    /\ FenceStateAfter(ls, n - 1) = "Code"
    /\ \E m \in (n + 1)..Len(ls) : StartsWith(ls[m], Fence)

\* C2: no line lying inside a generic code fence is handed to renderImage or
\* renderEmbeddedSvg, and at the end of the scan each such line was written
\* as text.
C2_CodeFenceOpaque ==
    /\ \A n \in dispatched : ~InsideCodeFence(lines, n)
    /\ pc = "done" =>
          \A n \in 1..Len(lines) : InsideCodeFence(lines, n) => WrittenAsText(n)

\* C3: at every line boundary at most one of inCodeBlock and inMermaidBlock
\* is true.
C3_FlagsExclusive == pc = "scan" => ~(inCodeBlock /\ inMermaidBlock)

\* a non-text block is written, or the final flush is made
FlushStep ==
    /\ (Len(out') > Len(out) /\ Last(out').kind = "block") =>
          /\ processedContent' = <<>>
          /\ processedContent # <<>> =>
                /\ Len(out') > Len(out) + 1
                /\ out'[Len(out) + 1] = Marked(processedContent)
    /\ (pc # "done" /\ pc' = "done" /\ processedContent # <<>>) =>
          out' = Append(out, Marked(processedContent))

\* C4: whenever a write of a non-text block is made the text accumulator is
\* empty and what it held was rendered and written just before; after the
\* last line whatever the accumulator holds is rendered and written.
C4_FlushRule == [][FlushStep]_vars

\* text was flushed before a block and again after the last line
C4_Witness ==
    /\ pc = "done" /\ processedContent # <<>>
    /\ Len(out) >= 3
    /\ out[1].kind = "text" /\ out[2].kind = "block"
    /\ Last(out) = Marked(processedContent)

\* the fence left open at the end of the document
OpenFenceLine == IF inMermaidBlock THEN mermaidStart ELSE codeStart

\* C5: when the document ends inside an open code or diagram fence the scan
\* still completes and every line after the opening fence was written.
C5_NoTrailingLoss ==
    (pc = "done" /\ (inCodeBlock \/ inMermaidBlock)) =>
        \A n \in (OpenFenceLine + 1)..Len(lines) : Covered(n)

\* the line at the cursor makes the scanner look ahead for a vector block
VectorTrigger ==
    /\ AtLine /\ ~IsFence /\ ~inMermaidBlock /\ ~inCodeBlock
    /\ (Includes(lines[i], "<svg") \/ Includes(lines[i], "<div"))

\* the lookahead finds the closing tags of a block
VectorFound ==
    /\ VectorTrigger
    /\ Lookahead(lines, i).foundSvg /\ Lookahead(lines, i).foundEndDiv

\* the lookahead ends without a complete block
VectorMiss == VectorTrigger /\ ~VectorFound

\* the writes made by the step
NewWrites == SubSeq(out', Len(out) + 1, Len(out'))

\* C6 as stated: after a lookahead that finds no complete block the opening
\* line is appended to the text accumulator and the scan is at the next line.
C6_OpeningLineIsText ==
    [][VectorMiss =>
          /\ pc' = "scan" /\ i' = i + 1
          /\ processedContent' = AppendLine(processedContent, i, lines[i])]_vars

\* C6 (amended): after a lookahead that finds no complete block, the
\* lookahead has read fewer than LookaheadWindow + DivWindow lines, the cursor
\* was not moved, and the opening line goes on to the standalone image check:
\* it is dispatched as an image when it has that shape and is appended to the
\* text accumulator otherwise; the scan resumes at the very next line.
C6_BoundedLookahead ==
    [][VectorMiss =>
          /\ Lookahead(lines, i).last - i + 1 < LookaheadWindow + DivWindow
          /\ IF ImageMatch(lines[i])
             THEN \/ pc' = "image" /\ i' = i /\ blockStart' = i
                  \/ /\ SrcIsHttp(lines[i]) /\ pc' = "scan" /\ i' = i + 1
                     /\ Last(out').blk = "image"
             ELSE /\ pc' = "scan" /\ i' = i + 1
                  /\ out' = out
                  /\ processedContent' = AppendLine(processedContent, i, lines[i])]_vars

\* the opening <svg of line 1 found no </svg> within the window and was
\* accumulated as text; the scan is at line 2
C6_Witness ==
    /\ pc = "scan" /\ i = 2
    /\ Len(lines) = LookaheadWindow + 2
    /\ processedContent = <<[ln |-> 1, text |-> SvgOpen]>>
    /\ lines[LookaheadWindow + 1] = SvgClose

\* the bodies of the four writes of the catch of the diagram block
RawSourceBodies(content) ==
    << <<MermaidFence>>, content, <<BareFence>>, <<<<"[Mermaid error:", "]">>>> >>

Bodies(ws) == [k \in 1..Len(ws) |-> ws[k].body]

MermaidDone == pc \in {"mermaid_render", "mermaid_image"} /\ pc' = "scan"

IsRealGraphic(w) ==
    /\ Len(w.body) = 1 /\ StartsWithEsc(w.body[1])
    /\ w.body[1] # <<Esc, "placeholder">>

\* a write showing something in place of the block
IsPlaceholder(w) == w.body # <<Newline>> /\ ~IsRealGraphic(w)

\* the dispatch of a block is completed
BlockDone == pc \in BlockPcs /\ pc' \notin BlockPcs

\* C8: whatever fails while a block is dispatched, the step that completes
\* the block leaves the scanner in the loop at the next line, with the fence
\* flags as they were, the accumulator and the diagram buffer empty, as it
\* does after a success; and a failed block is written as a placeholder.
C8_FailureContained ==
    [][BlockDone =>
          /\ pc' = "scan" /\ i' = i + 1
          /\ processedContent' = <<>> /\ mermaidContent' = <<>>
          /\ ~inMermaidBlock' /\ inCodeBlock' = inCodeBlock
          /\ Len(out') > Len(out)
          /\ fault' # {} =>
                /\ \E k \in 1..Len(NewWrites) : IsPlaceholder(NewWrites[k])
                /\ \A k \in 1..Len(NewWrites) : ~IsRealGraphic(NewWrites[k])]_vars

\* a vector block failed to render and the scan is at the next line
C8_Witness ==
    /\ pc = "scan" /\ i <= Len(lines)
    /\ "svg" \in fault
    /\ out # <<>> /\ Last(out).blk = "svg"

\* C9: when the lookahead finds the closing tags of a vector block the
\* scanner flushes the accumulator and goes on to emit the graphic or a
\* warning, also when the extraction fails, and then moves the cursor past
\* the consumed lines.
C9_CompleteBlockEmits ==
    [][/\ VectorFound =>
            /\ pc' = "svg" /\ processedContent' = <<>>
            /\ i' = Lookahead(lines, i).cursor
       /\ pc = "svg" =>
            /\ pc' = "scan" /\ i' = i + 1
            /\ \E k \in 1..Len(NewWrites) : NewWrites[k].body # <<Newline>>]_vars

PlainLine(l) == l \in {Txt, Empty}

\* a text run, one mermaid fenced block, a second text run
TextDiagramText(ls) ==
    \E a, b \in 2..(Len(ls) - 1) :
        /\ a < b /\ ls[a] = MermaidFence /\ ls[b] = BareFence
        /\ \A n \in (1..Len(ls)) \ {a, b} : PlainLine(ls[n])

FenceOpenAt(ls) == CHOOSE a \in 1..Len(ls) : ls[a] = MermaidFence
FenceCloseAt(ls) == CHOOSE b \in 1..Len(ls) : ls[b] = BareFence

\* the text write of the lines from..to of the document
TextOf(ls, from, to) ==
    [kind |-> "text", blk |-> "text", from |-> from, to |-> to,
     lns |-> [k \in 1..(to - from + 1) |-> from + k - 1],
     body |-> [k \in 1..(to - from + 1) |-> ls[from + k - 1]]]

-----------------------------------------------------------------------------
(* Sequential line processing *)

\* C15: in a terminal pass the adapter calls are awaited one at a time: at
\* most one call is in flight, none is in flight while the loop is at a
\* line or has finished, and whatever was written so far belongs to lines
\* before the cursor.
C15_OneLineAtATime ==
    /\ inflight <= 1
    /\ pc \in {"scan", "done"} => inflight = 0
    /\ pc = "scan" => \A k \in 1..Len(out) : out[k].to < i

\* a second block's adapter call is in flight after a first block was
\* rendered and written
C15_Witness ==
    /\ pc \in BlockPcs /\ inflight = 1
    /\ \E k \in 1..Len(out) :
         /\ out[k].kind = "block" /\ out[k].to < blockStart
         /\ StartsWithEsc(out[k].body[1])

-----------------------------------------------------------------------------
(* The diagram adapter: availability, files, failures *)

\* C11 as stated: with the compiler absent every call returns the path of
\* a placeholder graphic
C11_AbsentReturnsPlaceholder ==
    (call.n >= 1 /\ call.avail = "false") => call.ret = "placeholder"

\* C11: once the probe found the compiler absent, no call starts the
\* compiler subprocess, every call resolves with the path of a placeholder
\* graphic or rejects because the placeholder file could not be written,
\* and the probe ran on the first call only.
C11_AbsentNeverInvokes ==
    /\ mermaidAvailable = "false" => execs = 0
    /\ (call.n >= 1 /\ call.avail = "false") =>
          /\ call.exec = "none"
          /\ IF call.writeOk
             THEN call.ret = "placeholder" /\ call.path = PlaceholderFile(call.fmt, OutputFile(call.d, call.fmt))
             ELSE call.ret = "throw" /\ call.error = "write"
    /\ call.n >= 1 => probes = 1 /\ (call.probed = 1 <=> call.n = 1)

\* a second call with the compiler absent has returned its placeholder
C11_Witness ==
    /\ apc = "returned" /\ call.n = 2
    /\ call.avail = "false" /\ call.ret = "placeholder"

\* the intermediate files (.mmd source, .json config) of any diagram
Intermediate(f) == f[3] \in {"mmd", "json"}

C13_FailureReturnsPlaceholder ==
    call.exec \in {"fail", "timeout"} => call.ret = "placeholder"

\* C13: a failed or timed-out compiler run is caught: the call never
\* rejects with the compiler's failure; it returns the path of a
\* placeholder graphic, or rejects with the write error when the
\* placeholder file cannot be written.
C13_FailureNotPropagated ==
    call.exec \in {"fail", "timeout"} =>
        /\ call.error # "compiler"
        /\ IF call.writeOk THEN call.ret = "placeholder" /\ call.error = "none"
           ELSE call.ret = "throw" /\ call.error = "write"

\* the compiler timed out and the call returned a placeholder
C13_Witness ==
    /\ apc = "returned" /\ call.exec = "timeout"
    /\ call.ret = "placeholder" /\ call.path \in tmpFiles

\* C14: when a pass has ended no temporary file of a diagram or vector
\* block remains.
C14_NoTempFileRemains == apc = "done" => tmpFiles = {}

-----------------------------------------------------------------------------
(* The configuration store *)

\* the merge the claim describes: every key of either side; a key of both
\* sides is merged recursively when both values are plain mappings and
\* holds the override's value in every other case
RECURSIVE MergeAsStated(_, _)
MergeAsStated(b, o) ==
    Obj([key \in DOMAIN b.v \cup DOMAIN o.v |->
            IF key \notin DOMAIN o.v THEN b.v[key]
            ELSE IF key \notin DOMAIN b.v THEN o.v[key]
            ELSE IF b.v[key].t = "object" /\ o.v[key].t = "object"
                 THEN MergeAsStated(b.v[key], o.v[key])
                 ELSE o.v[key]])

\* C17: deepMerge(base, override) is the merge the claim describes.
C17_DeepMerge == merged # Undefined => merged = MergeAsStated(base, override)

\* the profile name a loadProfile call resolves: the given one, or the
\* store's defaultProfile when none is given
Resolved(o) ==
    IF o.name # "" THEN o.name ELSE GetProperty(o.store, "defaultProfile").v

\* C16: loadProfile(name) returns the profile stored under the resolved
\* name when the store has that key, and fails listing every profile key
\* when it has not.
C16_LoadProfile ==
    outcome.op = "loadProfile" =>
        LET profiles == GetProperty(outcome.store, "profiles") IN
        IF Resolved(outcome) \in DOMAIN profiles.v
        THEN outcome.kind = "profile"
             /\ outcome.profile = profiles.v[Resolved(outcome)]
        ELSE outcome.kind = "not found" /\ outcome.listed = DOMAIN profiles.v

\* C18: a loadConfig that found no file returns the defaults without
\* failing, and one that found an unparseable file fails.
C18_CorruptSurfaces ==
    /\ outcome.from = "absent" => ~outcome.threw /\ outcome.store = DefaultConfig
    /\ outcome.from = "corrupt" => outcome.threw

\* the store's defaultProfile names one of its profiles
DefaultProfileExists(c) ==
    LET name == GetProperty(c, "defaultProfile")
        profiles == GetProperty(c, "profiles") IN
    name.t = "string" /\ profiles.t = "object" /\ name.v \in DOMAIN profiles.v

\* C19: in every store loadConfig returned and in the store the settings
\* menu holds, defaultProfile names an existing key of profiles.
C19_DefaultProfileExists ==
    /\ outcome.store # Undefined => DefaultProfileExists(outcome.store)
    /\ config # Undefined => DefaultProfileExists(config)

\* C20 as stated: a render pass never writes config.json
C20_RenderNeverWrites == lastWrite.by # "render"

\* C20: a render pass never changes an existing config.json; its profile
\* load writes the file only when there is none, and then writes the
\* default document.
C20_RenderWritesOnlyMissing ==
    lastWrite.by = "render" =>
        lastWrite.before = "absent" /\ lastWrite.doc = DefaultDocument

\* a render pass found no config.json and its profile load created it
C20_Witness ==
    /\ outcome.op = "loadProfile" /\ outcome.from = "absent"
    /\ lastWrite.by = "render"
    /\ configFile = OkFile(DefaultDocument)

-----------------------------------------------------------------------------
(* Properties of the settings flows *)

\* the numeric settings of a profile are in their ranges
InRange(profile) ==
    /\ MoreThan(profile.widthPercent, 0) /\ AtMost(profile.widthPercent, 1)
    /\ \A k \in 1..Len(profile.threshold) :
          AtLeast(profile.threshold[k], 0) /\ AtMost(profile.threshold[k], 1)
    /\ \A k \in 1..Len(profile.imagesDpi) : MoreThan(profile.imagesDpi[k], 0)
    /\ \A k \in 1..Len(profile.mermaidDpi) : MoreThan(profile.mermaidDpi[k], 0)

\* C21: after any sequence of edits made through the settings flows, every
\* persisted profile has images.widthPercent in (0,1], its transparency
\* threshold in [0,1] and its dpi above 0 when present
C21_PersistedInRange ==
    \A name \in DOMAIN persisted : InRange(persisted[name])

-----------------------------------------------------------------------------
(* Properties of the image adapter *)

\* the call was made with a widthPercent in (0,1] on a terminal of at
\* least one column, and the encoder was handed a width
SizedCall ==
    /\ rcall.size # <<>>
    /\ term.columns >= 1
    /\ rcall.widthPercent # <<>>
    /\ MoreThan(rcall.widthPercent[1], 0)
    /\ AtMost(rcall.widthPercent[1], 1)

\* C22: for a terminal of at least 1 column and a widthPercent in (0,1] the
\* width handed to the encoder is floor(terminalColumns * widthPercent),
\* and at least 1
C22_TargetColumns ==
    SizedCall =>
       LET floor == (term.columns * rcall.widthPercent[1].n)
                       \div rcall.widthPercent[1].d IN
       /\ rcall.size[1] = IF floor < 1 THEN 1 ELSE floor
       /\ rcall.size[1] >= 1

\* the value renderImage returned is a bracketed placeholder
IsImagePlaceholder(r) == r.kind = "return" /\ StartsWith(r.value, "[Image:")

\* C23 as stated: renderImage never raises and, whichever of the file
\* check, the iTerm read, the kitty helper or the sixel encoder failed, it
\* returns a placeholder starting with '[Image:'
C23_EveryFailureIsPlaceholder ==
    (/\ rpc = "returned"
     /\ \/ ~rcall.exists
        \/ rcall.readFailed
        \/ rcall.kittyFailed
        \/ rcall.chafaFailed)
       => IsImagePlaceholder(rcall.result)

\* C23: renderImage never raises; it returns a placeholder starting with
\* '[Image:' when the file is missing, the iTerm read fails or the sixel
\* encoder fails, and after a failure of the kitty helper it returns what
\* the sixel encoder gives
C23_NeverRaises ==
    rpc = "returned" =>
       /\ rcall.result.kind = "return"
       /\ (~rcall.exists \/ rcall.readFailed \/ rcall.chafaFailed)
             => IsImagePlaceholder(rcall.result)
       /\ (rcall.kittyFailed /\ ~rcall.chafaFailed)
             => rcall.result.value = Stdout(rcall.child, ImageFile)

C23_Witness ==
    /\ rpc = "returned"
    /\ rcall.kittyFailed
    /\ rcall.chafaFailed
    /\ IsImagePlaceholder(rcall.result)

\* C24: every call of renderImage returns in the end, whatever the encoder
\* subprocess does
C24_EveryCallReturns == (rpc = "access") ~> (rpc = "returned")

\* C25: with the graphics encoder missing, its warning is printed at most
\* once in a process run
C25_EncoderWarnedOnce == ~term.chafa => stderr.chafaErrors <= 1

-----------------------------------------------------------------------------
(* Properties of the entry point *)

\* C26: in terminal mode with a file argument the file is what is rendered,
\* whatever stdin is; stdin is the document only without a file argument
C26_FileArgumentWins ==
    run.mode = "terminal" =>
       run.source = IF argv.file # "" THEN "file" ELSE "stdin"

\* a profile of that name exists in the store
ProfileExists(name) == name \in DOMAIN GetProperty(DefaultConfig, "profiles").v

\* C27: in every output mode a given --profile P is the profile used, with
\* a profile-not-found error when P does not exist; the mode's default
\* profile is used only when --profile is absent
C27_ProfileFlagHonoured ==
    (run.mode \in {"terminal", "pdf", "odt"} /\ run.error # "requires a file") =>
       IF argv.profile = "" THEN run.profile = run.mode
       ELSE IF ProfileExists(argv.profile)
       THEN run.profile \in {argv.profile, ""}
       ELSE run.error = "profile not found"

-----------------------------------------------------------------------------
(* Properties of the terminal scanner: lines kept, fences tracked *)

\* line n belongs to a block that was dispatched: a fence or body line of a
\* diagram, a standalone image line, or a line of a vector block that holds
\* part of the <svg> element or is the first or last line of the block
\* (the wrapping <div> and </div>)
InDispatchedBlock(n) ==
    \E k \in 1..Len(out) :
       /\ out[k].kind = "block"
       /\ out[k].from <= n /\ n <= out[k].to
       /\ out[k].blk = "svg" => (n \in dispatched \/ n = out[k].from \/ n = out[k].to)

\* the places where line n is in a text write
TextPlaces(n) ==
    UNION {{<<k, m>> : m \in {m \in 1..Len(out[k].lns) : out[k].lns[m] = n}} :
              k \in 1..Len(out)}

\* C28: when the scan is over, every line that is not part of a dispatched
\* block was written as text exactly once
C28_NoLineLost ==
    pc = "done" =>
       \A n \in 1..Len(lines) :
          ~InDispatchedBlock(n) => Cardinality(TextPlaces(n)) = 1

\* C29: at every line boundary inCodeBlock is true exactly when the fences
\* before the current line leave a generic code fence open
C29_FlagTracksFences ==
    pc = "scan" => (inCodeBlock <=> FenceStateAfter(lines, i - 1) = "Code")

\* a fence line is met inside a generic code fence
FenceInsideCode == AtLine /\ IsFence /\ inCodeBlock /\ ~inMermaidBlock

\* C30: a fence line met inside a generic code fence, whatever its tag,
\* closes the fence: the line is appended to the text accumulator and the
\* scanner is back in the Text state
C30_AnyFenceClosesCode ==
    [][FenceInsideCode =>
          /\ ~inCodeBlock' /\ ~inMermaidBlock'
          /\ processedContent' = AppendLine(processedContent, i, lines[i])]_vars

\* diagram buffering starts in this step
DiagramBufferingStarts == ~inMermaidBlock /\ inMermaidBlock'

\* C31: diagram buffering starts only on a fence line met in the Text state
\* whose language tag is the diagram marker
C31_DiagramStartsOnlyInText ==
    [][DiagramBufferingStarts =>
          /\ AtLine /\ IsFence
          /\ LangMatch(lines[i]) = "mermaid"
          /\ ~inCodeBlock]_vars

-----------------------------------------------------------------------------
(* Properties of concurrent diagram calls *)

\* C32: however the calls in flight interleave, 'which mmdc' is run at most
\* once in a process and the missing-compiler warning is printed at most once
C32_SingleFlight == probes <= 1 /\ warnings <= 1

-----------------------------------------------------------------------------
(* Properties of the export preprocessing *)

\* line n of the source lies in a generic code fence that is closed later
InClosedCodeFence(ls, n) ==
    /\ FenceStateAfter(ls, n - 1) = "Code"
    /\ \E m \in n..Len(ls) : StartsWith(ls[m], Fence)

\* C33: every source line inside a generic code fence is a line of the
\* content handed to the compositor, token for token
C33_CodeFenceReachesCompositor ==
    export.pc = "composed" =>
       \A n \in 1..Len(export.src) :
          InClosedCodeFence(export.src, n) =>
             \E k \in 1..Len(export.content) : export.content[k] = Tagged(export.src)[n]

-----------------------------------------------------------------------------
(* Properties of the reset of the settings *)

\* the store and the file hold the built-in defaults: loading the file gives
\* the default configuration
HoldsDefaults(store, file) ==
    /\ store = DefaultConfig
    /\ file.state = "ok"
    /\ LoadConfig(file, TRUE).store = DefaultConfig

\* C34: a confirmed reset leaves the built-in defaults in the store of the
\* settings manager and in config.json, whatever they held before
C34_ResetRestoresDefaults == justReset => HoldsDefaults(config, configFile)

-----------------------------------------------------------------------------
(* Properties of the Ink settings app *)

\* every accepted edit was written and stored
AllSaved == \A c \in 1..Len(ink.calls) : ink.calls[c].pc = "saved"

\* call c is the last accepted edit of its setting
LastEditOfKey(c) == \A d \in (c + 1)..Len(ink.calls) : ink.calls[d].key # ink.calls[c].key

\* C35: when every accepted edit has been saved, config.json holds the value
\* of the last edit of each setting that was edited
C35_EveryEditPersists ==
    AllSaved =>
       \A c \in 1..Len(ink.calls) :
          LastEditOfKey(c) => ink.file[ink.calls[c].key] = ink.calls[c].value

-----------------------------------------------------------------------------
(* Properties of the interactive viewer *)

\* C36: a press of the up arrow with the window not at the top moves the
\* window up by one line, and a press of the down arrow with the window not
\* at the bottom moves it down by one line
C36_ArrowMovesWindow ==
    /\ (viewer.last.key = "up" /\ viewer.last.before > 0) =>
          viewer.last.after = viewer.last.before - 1
    /\ (viewer.last.key = "down"
          /\ viewer.last.before < MaxOffset(viewer.lineCount, viewer.rows)) =>
          viewer.last.after = viewer.last.before + 1

-----------------------------------------------------------------------------
(* Properties of generatePdf *)

\* C37: every generatePdf call ends, with the PDF or with a failure
C37_GeneratePdfFinishes == <>(pdf.pc = "closed")

-----------------------------------------------------------------------------
(* Algebra of deepMerge *)

\* C38: merging the override again into the result changes nothing:
\* deepMerge(deepMerge(b, o), o) = deepMerge(b, o)
C38_DeepMergeIdempotent ==
    merged # Undefined => DeepMerge(merged, override) = merged

====
